---- MODULE Spec2Model ----
(***************************************************************************)
(* Model of the SDF -> PDBQT batch conversion tools.                       *)
(*                                                                         *)
(*   SpecPipe      one call of convert_single_file (the batch converter's  *)
(*                 and the standalone worker's), external tools answering  *)
(*                 nondeterministically                                    *)
(*   SpecPool      one call of process_batch_folder_parallel: task queue,  *)
(*                 W worker processes, result queue, progress_monitor      *)
(*   SpecRun       two consecutive runs of main() over one batch           *)
(*   SpecClassify  check_batch_completion and the branch main() takes on   *)
(*                 its answer, over a range of file counts                 *)
(*   SpecMain      main() over its batch folders, each run by the pool     *)
(*   SpecTotals    main() and the counters it adds up over its loop        *)
(*   SpecProgress  progress_monitor and its progress lines                 *)
(*   SpecPaths     the scratch and target paths of overlapping runs        *)
(*   SpecSelect    the batch selection of main()                           *)
(*   SpecFilter    analyze_and_filter_sdf.py: its pool, batch after batch  *)
(*   SpecSplit     sdf_splitter.split_sdf_file                             *)
(*   SpecExtract   sdf_splitter.extract_database_id                        *)
(*                                                                         *)
(* The specifications share the variables; each leaves the variables of    *)
(* the others at their idle values.                                        *)
(***************************************************************************)
EXTENDS Integers, Sequences, FiniteSets, TLC

VARIABLES
    inv,        \* SpecPipe: the arguments and the file system before the call
    res,        \* SpecPipe: how the call ended
    pipePc,     \* SpecPipe: "ready" | "done"
    poolPc,        \* SpecPool: where process_batch_folder_parallel is
    sdfCount,      \* the number of *.sdf files of the batch folder
    num_processes, \* the worker count W
    statErr,       \* per record: stat of its target raises OSError
    files,         \* per record: what its target path holds
    total_files,   \* len(sdf_files) after file_limit
    managerUp,     \* the mp.Manager() server process is running
    task_queue,
    result_queue,
    atGet,         \* the number of workers waiting in task_queue.get
    running,       \* the records inside convert_single_file, a worker each
    exited,        \* the number of workers that left their loop
    monitor,       \* progress_monitor: pc and its counters
    stalls,        \* queue.Empty seen by progress_monitor with no worker left
    takes,         \* per record: times it was taken from task_queue
    puts,          \* per record: results put on result_queue for it
    sent,          \* per record: the success flag and error text of the result it put
    ret,           \* what process_batch_folder_parallel returned
    clsIn,      \* SpecClassify: the folders check_batch_completion looks at
    clsOut,     \* SpecClassify: what it returned and how main() read it
    clsPc,      \* SpecClassify: "ready" | "done"
    runPc,      \* SpecRun: where main() is
    runNo,      \* SpecRun: 1 for a run of main(), 2 for the run after it
    doneBefore, \* the records of the batch converted before run 1
    target,     \* per other record: what its target path holds
    badName,    \* per other record: stat of its target raises OSError
    outDir,     \* the batch's output folder exists
    atStart,    \* per run: the *.sdf and *.pdbqt counts when it reached the batch
    outcome,    \* per run and record: how its call of convert_single_file ended
    extCalls,   \* per run and record: that call ran an external tool
    nextTask,   \* the position in sdf_files of the next task to be taken
    completed,  \* the results progress_monitor has counted
    mainPc,     \* SpecMain: where main() is
    numBatches, \* the batch folders found
    batchIdx,   \* the position of the loop of main() in batches_to_process
    batchState, \* per batch: "Discovered" | "Skip" | "Run"
    resumeMode, \* the configured RESUME_MODE
    seen,       \* the folders of the batch at batchIdx as the resume check saw them
    toolCheck,  \* what check_openbabel() returned: "none" | "ok" | "failed"
    pathTool,   \* SpecPaths: the program that converts, "converter" | "worker"
    pathFiles,  \* SpecPaths: sdf_files, the sorted *.sdf names of the batch folder
    pathProcs,  \* SpecPaths: per run of main(), its num_processes
    taken,      \* SpecPaths: per run, the tasks its workers took from task_queue
    active,     \* SpecPaths: the calls of convert_single_file under way
    written,    \* SpecPaths: the target names that hold data
    filtPc,     \* SpecFilter: where main() and process_single_batch are
    filtBatch,  \* SpecFilter: the batch folders still to be processed
    filtTotal,  \* SpecFilter: total_files of the batch
    filtPut,    \* SpecFilter: tasks put that the queue's feeder has not sent yet
    filtTasks,  \* SpecFilter: tasks a worker can get
    filtWorker, \* SpecFilter: per worker "get" | "busy" | "hung" | "exited"
    filtResults, \* SpecFilter: result_queue, the status of each result
    filtCount,  \* SpecFilter: the loop counter and passed_count, rejected_count
    filtGaveUp, \* SpecFilter: the result loop ended on the 120 s timeout
    filtJoined, \* SpecFilter: the processes joined
    selPc,      \* SpecSelect: where main() is
    selCfg,     \* SpecSelect: the configuration constants the selection reads
    selEntries, \* SpecSelect: per name what the input directory holds
    selList,    \* SpecSelect: batches_to_process
    selDone,    \* SpecSelect: the batches the loop of main() has taken, in order
    splitPc,    \* SpecSplit: where split_sdf_file is
    splitInput, \* SpecSplit: the input file and compounds_per_folder
    splitRest,  \* SpecSplit: the lines of the input not read yet
    splitCount, \* SpecSplit: folder_count, current_folder_compounds, compound_count, error_count
    splitFolders, \* SpecSplit: per batch folder made, the names of the files in it
    splitLog,   \* SpecSplit: the error types written to error.log, "none" without the file
    exLines,    \* SpecExtract: compound_lines
    exResult,   \* SpecExtract: what extract_database_id returned
    totals,     \* SpecTotals: the counters main() adds up over its loop
    summaries   \* SpecTotals: per batch the loop has left, what the batch function returned

pipeVars == <<inv, res, pipePc>>

\* the variables a specification leaves alone
clsVars == <<clsIn, clsOut, clsPc>>

runVars == <<runPc, runNo, doneBefore, target, badName, outDir, atStart, outcome, extCalls,
             nextTask, completed>>

mainVars == <<mainPc, numBatches, batchIdx, batchState, resumeMode, seen, toolCheck>>

pathVars == <<pathTool, pathFiles, pathProcs, taken, active, written>>

\* the variables of the specifications that do not run the converter's pool
filtVars == <<filtPc, filtBatch, filtTotal, filtPut, filtTasks, filtWorker, filtResults,
              filtCount, filtGaveUp, filtJoined>>

selVars == <<selPc, selCfg, selEntries, selList, selDone>>

splitVars == <<splitPc, splitInput, splitRest, splitCount, splitFolders, splitLog>>

exVars == <<exLines, exResult>>

totVars == <<totals, summaries>>

otherVars == <<pathVars, filtVars, selVars, splitVars, exVars, totVars>>

notPool == <<pipeVars, clsVars, runVars, mainVars, otherVars>>

poolVars == <<poolPc, sdfCount, num_processes, statErr, files, total_files,
              managerUp, task_queue, result_queue, atGet, running, exited,
              monitor, stalls, takes, puts, sent, ret>>

notPipe == <<poolVars, clsVars, runVars, mainVars, otherVars>>

notCls == <<pipeVars, poolVars, runVars, mainVars, otherVars>>

notRun == <<pipeVars, poolVars, clsVars, mainVars, otherVars>>

\* main() drives the batch function: it leaves the rest alone
notMain == <<pipeVars, clsVars, runVars, otherVars>>

coreVars == <<pipeVars, poolVars, clsVars, runVars, mainVars>>

notPath == <<coreVars, filtVars, selVars, splitVars, exVars, totVars>>

notFilt == <<coreVars, pathVars, selVars, splitVars, exVars, totVars>>

notSel == <<coreVars, pathVars, filtVars, splitVars, exVars, totVars>>

notSplit == <<coreVars, pathVars, filtVars, selVars, exVars, totVars>>

notEx == <<coreVars, pathVars, filtVars, selVars, splitVars, totVars>>

-----------------------------------------------------------------------------
(* Files.  A path holds "absent", "empty" (zero bytes), "old" (data that   *)
(* was there before the call) or the tag of the call that wrote the data.  *)

HasData(f) == f \notin {"absent", "empty"}

\* what a tool leaves at the path it was told to write
Written(f, wrote, tag) ==
    CASE wrote = "none"  -> f
      [] wrote = "empty" -> "empty"
      [] OTHER           -> tag

(* An external call answers with an exit status, a TimeoutExpired or an    *)
(* OSError (the executable is missing), and may have written its output    *)
(* file before it ended.                                                   *)
Resp(kind, wrote) == [kind |-> kind, wrote |-> wrote]

WriterResps ==
    {Resp(k, w) : k \in {"exit0", "exit1", "timeout"}, w \in {"none", "empty", "data"}}
        \cup {Resp("oserror", "none")}

PlainResps == {Resp(k, "none") : k \in {"exit0", "exit1", "timeout", "oserror"}}

Strategies == {"fast", "balanced", "thorough", "other"}

-----------------------------------------------------------------------------
(* Outcomes of a call in progress: done = FALSE while it goes on.          *)

Cont(st) ==
    [done |-> FALSE, raised |-> FALSE, success |-> FALSE, exit |-> "none",
     temp |-> st.temp, out |-> st.out, calls |-> st.calls]

Ret(st, success, exit) ==
    [done |-> TRUE, raised |-> FALSE, success |-> success, exit |-> exit,
     temp |-> st.temp, out |-> st.out, calls |-> st.calls]

Raise(st) ==
    [done |-> TRUE, raised |-> TRUE, success |-> FALSE, exit |-> "raised",
     temp |-> st.temp, out |-> st.out, calls |-> st.calls]

\* the calls of S that went on, and those that returned or raised
Going(S) == {o \in S : ~o.done}

Ended(S) == {o \in S : o.done}

\* a call is recorded with the way it ended and with what the file it works
\* on held when it ended
RunTemp(st, cmd, r, tag) ==
    [st EXCEPT !.temp = Written(@, r.wrote, tag),
               !.calls = Append(@, [cmd |-> cmd, kind |-> r.kind,
                                    file |-> Written(st.temp, r.wrote, tag)])]

RunOut(st, cmd, r, tag) ==
    [st EXCEPT !.out = Written(@, r.wrote, tag),
               !.calls = Append(@, [cmd |-> cmd, kind |-> r.kind,
                                    file |-> Written(st.out, r.wrote, tag)])]

RunPlain(st, cmd, r) ==
    [st EXCEPT !.calls = Append(@, [cmd |-> cmd, kind |-> r.kind, file |-> st.temp])]

Excepts(r) == r.kind \in {"timeout", "oserror"}

-----------------------------------------------------------------------------
(* sdf_to_pdbqt_converter.convert_single_file                              *)

\* the handlers of the outer try: no clean-up of the scratch file
ConvExcept(st, r) ==
    IF r.kind = "timeout" THEN Ret(st, FALSE, "timeout")
                          ELSE Ret(st, FALSE, "unexpected")

\* ConvGate with the overwrite test the wrong way round
ConvGateInverted(st, overwrite, gateErr) ==
    IF ~overwrite THEN {Cont(st)}
    ELSE IF gateErr THEN {Raise(st)}
    ELSE IF HasData(st.out) THEN {Ret(st, TRUE, "gate")}
    ELSE {Cont(st)}

\* the gate is outside the try: an OSError of exists()/stat() leaves the function
ConvGate(st, overwrite, gateErr) ==
    IF overwrite THEN {Cont(st)}
    ELSE IF gateErr THEN {Raise(st)}
    ELSE IF HasData(st.out) THEN {Ret(st, TRUE, "gate")}
    ELSE {Cont(st)}

Gen3dOk(r, temp) == r.kind = "exit0" /\ HasData(temp)

\* ConvBuild that does not set gen3d_success
ConvBuildNoFlag(st, tag) ==
    {LET s == RunTemp(st, "build", r, tag) IN
        IF Excepts(r) THEN ConvExcept(s, r)
        ELSE Ret(s, FALSE, "stage1")
     : r \in WriterResps}

ConvBuild(st, tag) ==
    {LET s == RunTemp(st, "build", r, tag) IN
        IF Excepts(r) THEN ConvExcept(s, r)
        ELSE IF Gen3dOk(r, s.temp) THEN Cont(s)
        ELSE Ret(s, FALSE, "stage1")
     : r \in WriterResps}

ConvStage1(st, tag) ==
    UNION {LET s == RunTemp(st, "gen3D", r, tag) IN
        IF Excepts(r) THEN {ConvExcept(s, r)}
        ELSE IF Gen3dOk(r, s.temp) THEN {Cont(s)}
        ELSE ConvBuild(s, tag)
     : r \in WriterResps}

ConvMin(st, cmd) ==
    {LET s == RunPlain(st, cmd, r) IN
        IF Excepts(r) THEN ConvExcept(s, r)
        ELSE IF r.kind # "exit0" THEN Ret(s, FALSE, "stage2")
        ELSE Cont(s)
     : r \in PlainResps}

\* ConvMin2 that runs the second sub-step whatever the first did
ConvMin2Always(S, cmd) == UNION {ConvMin(Cont(s), cmd) : s \in S}

\* the second sub-step runs after a first that exited 0
ConvMin2(S, cmd) == Ended(S) \cup UNION {ConvMin(s, cmd) : s \in Going(S)}

ConvStage2(st, strategy) ==
    IF strategy = "fast" THEN ConvMin(st, "cg500")
    ELSE IF strategy = "balanced"
        THEN ConvMin2(ConvMin(st, "sd500"), "cg1000")
    ELSE IF strategy = "thorough"
        THEN ConvMin2(ConvMin(st, "sd1000"), "cg2000")
    ELSE {Cont(st)}

ConvFallback3(st, tag) ==
    {LET s == RunOut(st, "obabel_pdbqt", r, tag) IN
        IF Excepts(r) THEN ConvExcept(s, r)
        ELSE IF r.kind # "exit0" THEN Ret(s, FALSE, "stage3")
        ELSE Cont(s)
     : r \in WriterResps}

\* ConvStage3 without the inner try around the primary converter
ConvStage3NoCatch(st, tag) ==
    UNION {LET s == RunOut(st, "prepare_ligand4", r, tag) IN
        IF Excepts(r) THEN {ConvExcept(s, r)}
        ELSE IF r.kind = "exit0" /\ HasData(s.out) THEN {Cont(s)}
        ELSE ConvFallback3(s, tag)
     : r \in WriterResps}

\* python2 prepare_ligand4.py: its TimeoutExpired and FileNotFoundError are caught
ConvStage3(st, tag) ==
    UNION {LET s == RunOut(st, "prepare_ligand4", r, tag) IN
        IF ~Excepts(r) /\ r.kind = "exit0" /\ HasData(s.out) THEN {Cont(s)}
        ELSE ConvFallback3(s, tag)
     : r \in WriterResps}

\* ConvFinalCheck trusting the exit statuses
ConvFinalCheckExitOnly(st) == Ret(st, TRUE, "converted")

ConvFinalCheck(st) ==
    IF HasData(st.out) THEN Ret(st, TRUE, "converted")
                       ELSE Ret(st, FALSE, "final")

\* temp_3d_file.unlink(), then step 4
ConvFinish(st) == {ConvFinalCheck([st EXCEPT !.temp = "absent"])}

ConverterRuns(overwrite, strategy, out0, temp0, gateErr, tag) ==
    LET st0 == [temp |-> temp0, out |-> out0, calls |-> <<>>]
        g  == ConvGate(st0, overwrite, gateErr)
        s1 == Ended(g) \cup UNION {ConvStage1(s, tag) : s \in Going(g)}
        s2 == Ended(s1) \cup UNION {ConvStage2(s, strategy) : s \in Going(s1)}
        s3 == Ended(s2) \cup UNION {ConvStage3(s, tag) : s \in Going(s2)}
    IN  Ended(s3) \cup UNION {ConvFinish(s) : s \in Going(s3)}

-----------------------------------------------------------------------------
(* worker.convert_single_file                                              *)

WorkGate(st, overwrite, gateErr) ==
    IF overwrite THEN {Cont(st)}
    ELSE IF gateErr THEN {Raise(st)}
    ELSE IF HasData(st.out) THEN {Ret(st, TRUE, "gate")}
    ELSE {Cont(st)}

WorkExcept(st, r) ==
    IF r.kind = "timeout" THEN Ret(st, FALSE, "timeout")
                          ELSE Ret(st, FALSE, "unexpected")

WorkBuild(st, tag) ==
    {LET s == RunTemp(st, "build", r, tag) IN
        IF Excepts(r) THEN WorkExcept(s, r)
        ELSE IF r.kind = "exit0" /\ s.temp # "absent" THEN Cont(s)
        ELSE Ret(s, FALSE, "stage1")
     : r \in WriterResps}

WorkStage1(st, tag) ==
    UNION {LET s == RunTemp(st, "gen3D", r, tag) IN
        IF Excepts(r) THEN {WorkExcept(s, r)}
        ELSE IF r.kind = "exit0" /\ HasData(s.temp) THEN {Cont(s)}
        ELSE WorkBuild(s, tag)
     : r \in WriterResps}

WorkMin(st, cmd) ==
    {LET s == RunPlain(st, cmd, r) IN
        IF Excepts(r) THEN WorkExcept(s, r)
        ELSE IF r.kind # "exit0" THEN Ret(s, FALSE, "stage2")
        ELSE Cont(s)
     : r \in PlainResps}

\* for cmd in cmds: the loop leaves at the first non-zero exit
WorkMin2(S, cmd) == Ended(S) \cup UNION {WorkMin(s, cmd) : s \in Going(S)}

WorkStage2(st, strategy) ==
    IF strategy = "fast" THEN WorkMin(st, "cg500")
    ELSE IF strategy = "thorough"
        THEN WorkMin2(WorkMin(st, "sd1000"), "cg2000")
    ELSE WorkMin2(WorkMin(st, "sd500"), "cg1000")

WorkStage3(st, tag) ==
    {LET s == RunOut(st, "obabel_pdbqt", r, tag) IN
        IF Excepts(r) THEN WorkExcept(s, r)
        ELSE IF r.kind # "exit0" THEN Ret(s, FALSE, "stage3")
        ELSE Cont(s)
     : r \in WriterResps}

WorkFinalCheck(st) ==
    IF HasData(st.out) THEN Ret(st, TRUE, "converted")
                       ELSE Ret(st, FALSE, "final")

\* the finally clause: runs on every way out of the try
WorkFinally(o) == [o EXCEPT !.temp = "absent"]

WorkerRuns(overwrite, strategy, out0, temp0, gateErr, tag) ==
    LET st0 == [temp |-> temp0, out |-> out0, calls |-> <<>>]
        g  == WorkGate(st0, overwrite, gateErr)
        s1 == Ended(g) \cup UNION {WorkStage1(s, tag) : s \in Going(g)}
        s2 == Ended(s1) \cup UNION {WorkStage2(s, strategy) : s \in Going(s1)}
        s3 == Ended(s2) \cup UNION {WorkStage3(s, tag) : s \in Going(s2)}
        s4 == Ended(s3) \cup {WorkFinalCheck(s) : s \in Going(s3)}
    IN  {IF o.exit \in {"gate", "raised"} THEN o ELSE WorkFinally(o) : o \in s4}

-----------------------------------------------------------------------------
(* process_batch_folder_parallel, worker_process, progress_monitor         *)

NoRun ==
    [done |-> FALSE, raised |-> FALSE, success |-> FALSE, exit |-> "none",
     temp |-> "absent", out |-> "absent", calls |-> <<>>]

MaxRecords == 3

MaxWorkers == 2

MaxStalls == 2

OVERWRITE_EXISTING == FALSE

MINIMIZATION_STRATEGY == "balanced"

TEST_MODE == FALSE

TEST_FILE_COUNT == 100

\* main(): file_limit = TEST_FILE_COUNT if TEST_MODE else None (0 stands for None)
FileLimit == IF TEST_MODE THEN TEST_FILE_COUNT ELSE 0

\* sdf_files[:file_limit], taken only "if file_limit"
Limited(n, file_limit) ==
    IF file_limit # 0 /\ file_limit < n THEN file_limit ELSE n

Counts(s, f, k) == [successful |-> s, failed |-> f, skipped |-> k]

\* progress_monitor at its loop: the counters, and the values of completed for
\* which it has logged a progress line
MonitorStart ==
    [pc |-> "loop", completed |-> 0, successful |-> 0, failed |-> 0, skipped |-> 0,
     reported |-> <<>>]

MonitorIdle ==
    [pc |-> "idle", completed |-> 0, successful |-> 0, failed |-> 0, skipped |-> 0,
     reported |-> <<>>]

\* the error element of the result tuple, as far as progress_monitor reads it
ErrorText(run) ==
    CASE run.exit = "gate"      -> "Already exists (skipped)"
      [] run.exit = "converted" -> "None"
      [] OTHER                  -> "failed"

\* what one call of convert_single_file does to a record of the batch:
\* it raises, or returns a result tuple and leaves a target.  A scratch file
\* left by an earlier call does not change this set.
PoolOutcomes(out0, gErr) ==
    {[raised |-> run.raised, success |-> run.success, error |-> ErrorText(run),
      out |-> run.out, called |-> run.calls # <<>>] :
        run \in ConverterRuns(OVERWRITE_EXISTING, MINIMIZATION_STRATEGY,
                              out0, "absent", gErr, "new")}

\* PoolOutcomes for each state a record of a batch can start in: no target,
\* a target that cannot be stat'ed, a target left by an earlier run
FreshOutcomes == PoolOutcomes("absent", FALSE)

StatErrOutcomes == PoolOutcomes("absent", TRUE)

DoneOutcomes == PoolOutcomes("old", FALSE)

\* a target of zero bytes, left by a call that failed
EmptyOutcomes == PoolOutcomes("empty", FALSE)

\* RecordOutcomes of a call that does not look at the target
RecordOutcomesNoGate(out0, gErr) == FreshOutcomes

\* a target with data is "old" to the call that finds it
RecordOutcomes(out0, gErr) ==
    IF gErr THEN StatErrOutcomes
    ELSE IF HasData(out0)
        THEN {[o EXCEPT !.out = IF @ = "old" THEN out0 ELSE @] : o \in DoneOutcomes}
    ELSE IF out0 = "empty" THEN EmptyOutcomes
    ELSE FreshOutcomes

\* AnyChildAlive counting the worker processes alone
AnyWorkerAlive == atGet > 0 \/ running # {}

\* no result put yet
NoResult == [success |-> FALSE, error |-> "no result"]

\* any(p.is_alive() for p in mp.active_children()): the children of the main
\* process are the workers it started and the manager's server process
AnyChildAlive == managerUp \/ atGet > 0 \/ running # {}

PoolIdle ==
    /\ poolPc = "idle" /\ sdfCount = 0 /\ num_processes = 0
    /\ statErr = <<>> /\ files = <<>> /\ total_files = 0
    /\ managerUp = FALSE /\ task_queue = <<>> /\ result_queue = <<>>
    /\ atGet = 0 /\ running = {} /\ exited = 0 /\ monitor = MonitorIdle
    /\ stalls = 0 /\ takes = <<>> /\ puts = <<>> /\ sent = <<>> /\ ret = Counts(0, 0, 0)

PipeIdle == inv = [variant |-> "none"] /\ res = NoRun /\ pipePc = "idle"

ClsIdle == clsIn = [exists |-> FALSE] /\ clsOut = [status |-> "none"] /\ clsPc = "idle"

RESUME_MODE == TRUE

MainIdle ==
    /\ mainPc = "idle" /\ numBatches = 0 /\ batchIdx = 0 /\ batchState = <<>>
    /\ resumeMode = RESUME_MODE /\ seen = [exists |-> FALSE, sdf |-> 0, pdbqt |-> 0]
    /\ toolCheck = "none"

RunIdle ==
    /\ runPc = "idle" /\ runNo = 0 /\ doneBefore = 0
    /\ target = <<>> /\ badName = <<>> /\ outDir = FALSE
    /\ atStart = <<>> /\ outcome = <<>> /\ extCalls = <<>> /\ nextTask = 0 /\ completed = 0

PathIdle ==
    /\ pathTool = "none" /\ pathFiles = <<>> /\ pathProcs = <<>> /\ taken = <<>> /\ active = {} /\ written = {}

FilterIdle ==
    /\ filtPc = "idle" /\ filtBatch = 0 /\ filtTotal = 0 /\ filtPut = 0 /\ filtTasks = 0
    /\ filtWorker = <<>> /\ filtResults = <<>>
    /\ filtCount = [i |-> 0, passed |-> 0, rejected |-> 0]
    /\ filtGaveUp = FALSE /\ filtJoined = 0

SelectIdle ==
    /\ selPc = "idle" /\ selCfg = [mode |-> "none"] /\ selEntries = <<>>
    /\ selList = <<>> /\ selDone = <<>>

SplitIdle ==
    /\ splitPc = "idle" /\ splitInput = [exists |-> FALSE] /\ splitRest = <<>>
    /\ splitCount = [folder_count |-> 0] /\ splitFolders = <<>> /\ splitLog = "none"

ExtractIdle == exLines = <<>> /\ exResult = [pc |-> "idle"]

\* lines 471-476: the counters of main() before its loop
NoTotals ==
    [total_successful |-> 0, total_failed |-> 0, total_skipped |-> 0,
     processed_batches |-> 0, skipped_batches |-> 0]

TotalsIdle == totals = NoTotals /\ summaries = <<>>

OtherIdle == PathIdle /\ FilterIdle /\ SelectIdle /\ SplitIdle /\ ExtractIdle /\ TotalsIdle

CoreIdle == PipeIdle /\ PoolIdle /\ ClsIdle /\ RunIdle /\ MainIdle

\* a batch folder of n records, some converted by an earlier run, some with a
\* target that cannot be stat'ed; the output folder holds no scratch file
InitPool ==
    /\ PipeIdle /\ ClsIdle /\ RunIdle /\ MainIdle /\ OtherIdle
    /\ poolPc = "called"
    /\ sdfCount \in 0..MaxRecords
    /\ num_processes \in 1..MaxWorkers
    /\ statErr \in [1..sdfCount -> BOOLEAN]
    /\ files \in [1..sdfCount -> {"absent", "old"}]
    /\ \A r \in 1..sdfCount : statErr[r] => files[r] = "absent"
    /\ total_files = 0 /\ managerUp = FALSE
    /\ task_queue = <<>> /\ result_queue = <<>>
    /\ atGet = 0 /\ running = {} /\ exited = 0 /\ monitor = MonitorIdle
    /\ stalls = 0
    /\ takes = [r \in 1..sdfCount |-> 0]
    /\ puts = [r \in 1..sdfCount |-> 0]
    /\ sent = [r \in 1..sdfCount |-> NoResult]
    /\ ret = Counts(0, 0, 0)

\* lines 363-394: glob, limit, the empty batch, the manager and its queues,
\* every task enqueued, every worker started
PoolStart ==
    /\ poolPc = "called"
    /\ LET n == Limited(sdfCount, FileLimit) IN
        IF n = 0
        THEN /\ poolPc' = "returned"
             /\ ret' = Counts(0, 0, 0)
             /\ UNCHANGED <<total_files, managerUp, task_queue, atGet, monitor>>
        ELSE /\ poolPc' = "monitor"
             /\ total_files' = n
             /\ managerUp' = TRUE
             /\ task_queue' = [i \in 1..n |-> i]
             /\ atGet' = num_processes
             /\ monitor' = MonitorStart
             /\ UNCHANGED ret
    /\ UNCHANGED <<sdfCount, num_processes, statErr, files, result_queue,
                   running, exited, stalls, takes, puts, sent>>
    /\ UNCHANGED notPool

\* WorkerGet by a worker that goes on waiting for a further task
WorkerGetNoSlot ==
    /\ atGet > 0
    /\ task_queue # <<>>
    /\ running' = running \cup {Head(task_queue)}
    /\ task_queue' = Tail(task_queue)
    /\ takes' = [takes EXCEPT ![Head(task_queue)] = @ + 1]
    /\ UNCHANGED <<poolPc, sdfCount, num_processes, statErr, files, total_files,
                   managerUp, result_queue, exited, monitor, stalls, puts, sent, ret, atGet>>
    /\ UNCHANGED notPool

\* args = task_queue.get(timeout=10), by any of the workers waiting there
WorkerGet ==
    /\ atGet > 0
    /\ task_queue # <<>>
    /\ atGet' = atGet - 1
    /\ running' = running \cup {Head(task_queue)}
    /\ task_queue' = Tail(task_queue)
    /\ takes' = [takes EXCEPT ![Head(task_queue)] = @ + 1]
    /\ UNCHANGED <<poolPc, sdfCount, num_processes, statErr, files, total_files,
                   managerUp, result_queue, exited, monitor, stalls, puts, sent, ret>>
    /\ UNCHANGED notPool

\* except queue.Empty: break
WorkerQueueEmpty ==
    /\ atGet > 0
    /\ task_queue = <<>>
    /\ atGet' = atGet - 1
    /\ exited' = exited + 1
    /\ UNCHANGED <<poolPc, sdfCount, num_processes, statErr, files, total_files,
                   managerUp, task_queue, result_queue, running, monitor, stalls,
                   takes, puts, sent, ret>>
    /\ UNCHANGED notPool

\* WorkerRun by a worker that ends, without a result, on a call that failed
WorkerRunFailStops(r) ==
    /\ r \in running
    /\ \E o \in RecordOutcomes(files[r], statErr[r]) :
            IF o.raised \/ ~o.success
            THEN /\ exited' = exited + 1
                 /\ UNCHANGED <<files, result_queue, puts, sent, atGet>>
            ELSE /\ atGet' = atGet + 1
                 /\ files' = [files EXCEPT ![r] = o.out]
                 /\ result_queue' = Append(result_queue,
                        [success |-> o.success, file |-> r, error |-> o.error])
                 /\ puts' = [puts EXCEPT ![r] = @ + 1]
                 /\ sent' = [sent EXCEPT ![r] = [success |-> o.success, error |-> o.error]]
                 /\ UNCHANGED exited
    /\ running' = running \ {r}
    /\ UNCHANGED <<poolPc, sdfCount, num_processes, statErr, total_files,
                   managerUp, task_queue, monitor, stalls, takes, ret>>
    /\ UNCHANGED notPool

\* result = convert_single_file(args); result_queue.put(result)
\* except Exception: break
WorkerRun(r) ==
    /\ r \in running
    /\ \E o \in RecordOutcomes(files[r], statErr[r]) :
            IF o.raised
            THEN /\ exited' = exited + 1
                 /\ UNCHANGED <<files, result_queue, puts, sent, atGet>>
            ELSE /\ atGet' = atGet + 1
                 /\ files' = [files EXCEPT ![r] = o.out]
                 /\ result_queue' = Append(result_queue,
                        [success |-> o.success, file |-> r, error |-> o.error])
                 /\ puts' = [puts EXCEPT ![r] = @ + 1]
                 /\ sent' = [sent EXCEPT ![r] = [success |-> o.success, error |-> o.error]]
                 /\ UNCHANGED exited
    /\ running' = running \ {r}
    /\ UNCHANGED <<poolPc, sdfCount, num_processes, statErr, total_files,
                   managerUp, task_queue, monitor, stalls, takes, ret>>
    /\ UNCHANGED notPool

\* Tally counting a result twice in completed
TallyAhead(m, result) ==
    IF result.success
    THEN [m EXCEPT !.completed = @ + 2, !.successful = @ + 1]
    ELSE [m EXCEPT !.completed = @ + 2, !.failed = @ + 1]

\* Tally counting a record that was there before as converted
TallyNoSkip(m, result) ==
    IF result.success
    THEN [m EXCEPT !.completed = @ + 1, !.successful = @ + 1]
    ELSE [m EXCEPT !.completed = @ + 1, !.failed = @ + 1]

\* lines 298-305
Tally(m, result) ==
    IF result.success
    THEN IF result.error # "None" /\ result.error = "Already exists (skipped)"
         THEN [m EXCEPT !.completed = @ + 1, !.skipped = @ + 1]
         ELSE [m EXCEPT !.completed = @ + 1, !.successful = @ + 1]
    ELSE [m EXCEPT !.completed = @ + 1, !.failed = @ + 1]

PROGRESS_REPORT_FREQUENCY == 100

\* ProgressLine without the line for the last result
ProgressLineNoLast(c, total) ==
    \/ c % PROGRESS_REPORT_FREQUENCY = 0
    \/ c \in {1, 10, 50}

\* line 308: the condition under which a progress line is logged
ProgressLine(c, total) ==
    \/ c % PROGRESS_REPORT_FREQUENCY = 0
    \/ c \in {1, 10, 50}
    \/ c = total

\* lines 307-319: the progress line, logged after the counters have moved
ReportProgress(m, total) ==
    IF ProgressLine(m.completed, total)
    THEN [m EXCEPT !.reported = Append(@, m.completed)]
    ELSE m

\* result_queue.get(timeout=30) returns a result
MonitorGet ==
    /\ poolPc = "monitor" /\ monitor.pc = "loop"
    /\ monitor.completed < total_files
    /\ result_queue # <<>>
    /\ monitor' = ReportProgress(Tally(monitor, Head(result_queue)), total_files)
    /\ result_queue' = Tail(result_queue)
    /\ UNCHANGED <<poolPc, sdfCount, num_processes, statErr, files, total_files,
                   managerUp, task_queue, atGet, running, exited, stalls, takes,
                   puts, sent, ret>>
    /\ UNCHANGED notPool

\* except queue.Empty: break if no child is alive, else continue
MonitorQueueEmpty ==
    /\ poolPc = "monitor" /\ monitor.pc = "loop"
    /\ monitor.completed < total_files
    /\ result_queue = <<>>
    /\ stalls < MaxStalls
    /\ stalls' = IF AnyWorkerAlive THEN stalls ELSE stalls + 1
    /\ monitor' = IF AnyChildAlive THEN monitor ELSE [monitor EXCEPT !.pc = "summary"]
    /\ UNCHANGED <<poolPc, sdfCount, num_processes, statErr, files, total_files,
                   managerUp, task_queue, result_queue, atGet, running, exited,
                   takes, puts, sent, ret>>
    /\ UNCHANGED notPool

\* while completed < total_files: the loop ends
MonitorLoopEnd ==
    /\ poolPc = "monitor" /\ monitor.pc = "loop"
    /\ monitor.completed >= total_files
    /\ monitor' = [monitor EXCEPT !.pc = "summary"]
    /\ UNCHANGED <<poolPc, sdfCount, num_processes, statErr, files, total_files,
                   managerUp, task_queue, result_queue, atGet, running, exited,
                   stalls, takes, puts, sent, ret>>
    /\ UNCHANGED notPool

\* progress_monitor returns its counters; worker.join(timeout=10) for each
\* worker; return
PoolReturn ==
    /\ poolPc = "monitor" /\ monitor.pc = "summary"
    /\ ret' = Counts(monitor.successful, monitor.failed, monitor.skipped)
    /\ poolPc' = "returned"
    /\ UNCHANGED <<sdfCount, num_processes, statErr, files, total_files,
                   managerUp, task_queue, result_queue, atGet, running, exited,
                   monitor, stalls, takes, puts, sent>>
    /\ UNCHANGED notPool

NextPool ==
    \/ PoolStart
    \/ WorkerGet
    \/ WorkerQueueEmpty
    \/ \E r \in running : WorkerRun(r)
    \/ MonitorGet
    \/ MonitorQueueEmpty
    \/ MonitorLoopEnd
    \/ PoolReturn

-----------------------------------------------------------------------------
(* SpecPipe: one call.                                                     *)

\* an OSError at the gate is that of a target that cannot be stat'ed (a name
\* longer than the file system allows): such a target does not exist
Invocations ==
    {i \in [variant : {"converter", "worker"}, overwrite : BOOLEAN,
            strategy : Strategies, out0 : {"absent", "empty", "old"},
            temp0 : {"absent", "old"}, gateErr : BOOLEAN] :
        i.gateErr => (i.out0 = "absent" /\ ~i.overwrite)}

InitPipe ==
    /\ PoolIdle /\ ClsIdle /\ RunIdle /\ MainIdle /\ OtherIdle
    /\ inv \in Invocations
    /\ res = NoRun
    /\ pipePc = "ready"

CallConverter ==
    /\ pipePc = "ready"
    /\ inv.variant = "converter"
    /\ \E run \in ConverterRuns(inv.overwrite, inv.strategy, inv.out0,
                                inv.temp0, inv.gateErr, "new") :
            res' = run
    /\ pipePc' = "done"
    /\ UNCHANGED inv
    /\ UNCHANGED notPipe

CallWorker ==
    /\ pipePc = "ready"
    /\ inv.variant = "worker"
    /\ \E run \in WorkerRuns(inv.overwrite, inv.strategy, inv.out0,
                             inv.temp0, inv.gateErr, "new") :
            res' = run
    /\ pipePc' = "done"
    /\ UNCHANGED inv
    /\ UNCHANGED notPipe

NextPipe == CallConverter \/ CallWorker

vars == <<coreVars, otherVars>>

SpecPipe == InitPipe /\ [][NextPipe]_vars

SpecPool == InitPool /\ [][NextPool]_vars

-----------------------------------------------------------------------------
(* check_batch_completion and the way main() reads what it returns         *)

MaxFiles == 20

\* Python's true division: x / 0 raises ZeroDivisionError; the quotient is
\* kept as a fraction
Division(x, y) ==
    IF y = 0 THEN [raised |-> TRUE, num |-> 0, den |-> 1]
             ELSE [raised |-> FALSE, num |-> x, den |-> y]

\* CompletionRate taking a batch without records as fully converted
CompletionRateEmptyFull(total_pdbqt, total_sdf) ==
    IF total_sdf > 0 THEN Division(total_pdbqt, total_sdf)
                     ELSE [raised |-> FALSE, num |-> 1, den |-> 1]

\* completion_rate = total_pdbqt / total_sdf if total_sdf > 0 else 0
CompletionRate(total_pdbqt, total_sdf) ==
    IF total_sdf > 0 THEN Division(total_pdbqt, total_sdf)
                     ELSE [raised |-> FALSE, num |-> 0, den |-> 1]

\* IsCompleted with a strict comparison
IsCompletedStrict(rate) == 20 * rate.num > 19 * rate.den

\* completion_rate >= 0.95, 0.95 being 19/20
IsCompleted(rate) == 20 * rate.num >= 19 * rate.den

check_batch_completion(exists, sdf, pdbqt) ==
    IF ~exists
    THEN [raised |-> FALSE, is_completed |-> FALSE, total_sdf |-> 0, total_pdbqt |-> 0]
    ELSE LET rate == CompletionRate(pdbqt, sdf) IN
         [raised |-> rate.raised,
          is_completed |-> ~rate.raised /\ IsCompleted(rate),
          total_sdf |-> sdf, total_pdbqt |-> pdbqt]

\* main(): "already completed ... Skipping", "partially completed ...
\* Resuming", or neither message
BatchStatus(chk) ==
    IF chk.is_completed THEN "Complete"
    ELSE IF chk.total_pdbqt > 0 THEN "Partial"
    ELSE "Unstarted"

\* a batch folder with its *.sdf files and, if the output folder is there, the
\* *.pdbqt files in it
InitClassify ==
    /\ PipeIdle /\ PoolIdle /\ RunIdle /\ MainIdle /\ OtherIdle
    /\ clsIn \in {i \in [exists : BOOLEAN, sdf : 0..MaxFiles, pdbqt : 0..MaxFiles] :
                    ~i.exists => i.pdbqt = 0}
    /\ clsOut = [status |-> "none"]
    /\ clsPc = "ready"

Classify ==
    /\ clsPc = "ready"
    /\ LET chk == check_batch_completion(clsIn.exists, clsIn.sdf, clsIn.pdbqt) IN
        clsOut' = [status |-> IF chk.raised THEN "raised" ELSE BatchStatus(chk),
                   raised |-> chk.raised,
                   total_sdf |-> chk.total_sdf, total_pdbqt |-> chk.total_pdbqt]
    /\ clsPc' = "done"
    /\ UNCHANGED clsIn
    /\ UNCHANGED notCls

NextClassify == Classify

SpecClassify == InitClassify /\ [][NextClassify]_vars

-----------------------------------------------------------------------------
(* main(): two runs, one after the other, over one batch.  The batch lists *)
(* doneBefore records converted before the first run, then the records     *)
(* 1..Len(target).  A run takes the tasks in the order of the task queue;  *)
(* a task that was taken is converted and its result counted in one step.  *)

MaxDone == 19

MaxFresh == 2

NUM_PROCESSES == 55

\* the *.sdf files of the batch folder
SdfFiles == doneBefore + Len(target)

\* the *.pdbqt files of the output folder, of any size
PdbqtFiles == doneBefore + Cardinality({r \in DOMAIN target : target[r] # "absent"})

\* SkipBatch without the resume check
SkipBatchNever(chk) == FALSE

\* SkipBatch without a look at the resume mode
SkipBatchAnyMode(chk) == chk.is_completed

\* main(): if RESUME_MODE: ... if is_completed: ... continue
SkipBatch(chk) == resumeMode /\ chk.is_completed

\* how progress_monitor counts a result; a call that raised gives none
ResultClass(o) ==
    IF o.raised THEN "lost"
    ELSE IF ~o.success THEN "failed"
    ELSE IF o.error = "Already exists (skipped)" THEN "skipped"
    ELSE "converted"

\* the data a call of run n writes
RunTag(n) == IF n = 1 THEN "run1" ELSE "run2"

\* the tasks that were taken and gave no result: each ended its worker
LostTasks == (nextTask - 1) - completed

InitRun ==
    /\ PipeIdle /\ PoolIdle /\ ClsIdle /\ MainIdle /\ OtherIdle
    /\ runPc = "start" /\ runNo = 1
    /\ doneBefore \in 0..MaxDone
    /\ \E k \in 0..MaxFresh :
        /\ target = [r \in 1..k |-> "absent"]
        /\ badName \in [1..k -> BOOLEAN]
        /\ outcome = [n \in 1..2 |-> [r \in 1..k |-> "none"]]
        /\ extCalls = [n \in 1..2 |-> [r \in 1..k |-> FALSE]]
    /\ outDir \in BOOLEAN
    /\ doneBefore > 0 => outDir
    /\ atStart = [n \in 1..2 |-> [sdf |-> 0, pdbqt |-> 0]]
    /\ nextTask = 0 /\ completed = 0

\* lines 407-432: if not check_openbabel(): return
MainSetup ==
    /\ runPc = "start"
    /\ \E ok \in BOOLEAN : runPc' = IF ok THEN "loop" ELSE "aborted"
    /\ UNCHANGED <<runNo, doneBefore, target, badName, outDir, atStart, outcome,
                   extCalls, nextTask, completed>>
    /\ UNCHANGED notRun

\* lines 484-491: the batch is skipped or goes on to be processed
MainResumeCheck ==
    /\ runPc = "loop"
    /\ atStart' = [atStart EXCEPT ![runNo] = [sdf |-> SdfFiles, pdbqt |-> PdbqtFiles]]
    /\ LET chk == check_batch_completion(outDir, SdfFiles,
                                         IF outDir THEN PdbqtFiles ELSE 0) IN
        runPc' = IF SkipBatch(chk) THEN "ended" ELSE "batch"
    /\ UNCHANGED <<runNo, doneBefore, target, badName, outDir, outcome,
                   extCalls, nextTask, completed>>
    /\ UNCHANGED notRun

\* lines 363-394: mkdir, glob, limit, the empty batch, every task enqueued
BatchStart ==
    /\ runPc = "batch"
    /\ outDir' = TRUE
    /\ IF Limited(SdfFiles, FileLimit) = 0
       THEN runPc' = "ended" /\ UNCHANGED <<nextTask, completed>>
       ELSE runPc' = "tasks" /\ nextTask' = 1 /\ completed' = 0
    /\ UNCHANGED <<runNo, doneBefore, target, badName, atStart, outcome, extCalls>>
    /\ UNCHANGED notRun

\* a worker takes the next task, calls convert_single_file and puts the
\* result, which progress_monitor counts; or the call raises and the worker ends
RunTask ==
    /\ runPc = "tasks"
    /\ nextTask <= Limited(SdfFiles, FileLimit)
    /\ NUM_PROCESSES - LostTasks > 0
    /\ nextTask' = nextTask + 1
    /\ IF nextTask <= doneBefore
       THEN /\ \E o \in RecordOutcomes("old", FALSE) :
                    completed' = IF o.raised THEN completed ELSE completed + 1
            /\ UNCHANGED <<target, outcome, extCalls>>
       ELSE LET r == nextTask - doneBefore IN
            \E o \in RecordOutcomes(target[r], badName[r]) :
                /\ outcome' = [outcome EXCEPT ![runNo][r] = ResultClass(o)]
                /\ extCalls' = [extCalls EXCEPT ![runNo][r] = o.called]
                /\ target' = [target EXCEPT ![r] =
                                IF o.raised THEN @
                                ELSE IF o.out = "new" THEN RunTag(runNo)
                                ELSE o.out]
                /\ completed' = IF o.raised THEN completed ELSE completed + 1
    /\ UNCHANGED <<runPc, runNo, doneBefore, badName, outDir, atStart>>
    /\ UNCHANGED notRun

\* progress_monitor has counted total_files results: the batch function
\* returns and main() ends its loop
BatchReturn ==
    /\ runPc = "tasks"
    /\ nextTask > Limited(SdfFiles, FileLimit)
    /\ completed >= Limited(SdfFiles, FileLimit)
    /\ runPc' = "ended"
    /\ UNCHANGED <<runNo, doneBefore, target, badName, outDir, atStart, outcome,
                   extCalls, nextTask, completed>>
    /\ UNCHANGED notRun

\* results are missing and the manager's process is alive: progress_monitor
\* goes on waiting
BatchHang ==
    /\ runPc = "tasks"
    /\ nextTask > Limited(SdfFiles, FileLimit)
    /\ completed < Limited(SdfFiles, FileLimit)
    /\ runPc' = "hung"
    /\ UNCHANGED <<runNo, doneBefore, target, badName, outDir, atStart, outcome,
                   extCalls, nextTask, completed>>
    /\ UNCHANGED notRun

\* the program is started again, after it ended or after it was killed
NextRun ==
    /\ runPc \in {"ended", "aborted", "hung"}
    /\ runNo = 1
    /\ runNo' = 2
    /\ runPc' = "start"
    /\ nextTask' = 0 /\ completed' = 0
    /\ UNCHANGED <<doneBefore, target, badName, outDir, atStart, outcome, extCalls>>
    /\ UNCHANGED notRun

NextRunSpec ==
    \/ MainSetup
    \/ MainResumeCheck
    \/ BatchStart
    \/ RunTask
    \/ BatchReturn
    \/ BatchHang
    \/ NextRun

SpecRun == InitRun /\ [][NextRunSpec]_vars

-----------------------------------------------------------------------------
(* main(): one run over the batch folders, each batch run by the batch     *)
(* function with its workers and its monitor.  A batch folder is read when *)
(* the loop reaches it.                                                    *)

MaxBatches == 2

MaxMainRecords == 2

NoFolders == [exists |-> FALSE, sdf |-> 0, pdbqt |-> 0]

\* the batch folders the loop can find: n records, those converted earlier,
\* those whose target cannot be stat'ed; no output folder, no target
BatchFolders ==
    UNION {
        {f \in [exists : BOOLEAN, files : [1..n -> {"absent", "old"}],
                statErr : [1..n -> BOOLEAN]] :
            \A r \in 1..n :
                /\ f.statErr[r] => f.files[r] = "absent"
                /\ ~f.exists => f.files[r] = "absent"}
        : n \in 0..MaxMainRecords}

\* output_folder.mkdir(exist_ok=True) of the batch function has run
FolderMade == poolPc \notin {"idle", "called"}

\* a worker process of the batch function was started
WorkersStarted == atGet + Cardinality(running) + exited > 0

InitMain ==
    /\ PipeIdle /\ ClsIdle /\ RunIdle /\ OtherIdle
    /\ mainPc = "start"
    /\ numBatches \in 0..MaxBatches
    /\ batchIdx = 0
    /\ batchState = [b \in 1..numBatches |-> "Discovered"]
    /\ resumeMode \in BOOLEAN
    /\ seen = NoFolders
    /\ toolCheck = "none"
    /\ num_processes \in 1..MaxWorkers
    /\ poolPc = "idle" /\ sdfCount = 0
    /\ statErr = <<>> /\ files = <<>> /\ total_files = 0
    /\ managerUp = FALSE /\ task_queue = <<>> /\ result_queue = <<>>
    /\ atGet = 0 /\ running = {} /\ exited = 0 /\ monitor = MonitorIdle
    /\ stalls = 0 /\ takes = <<>> /\ puts = <<>> /\ sent = <<>> /\ ret = Counts(0, 0, 0)

\* DriverSetup that logs the failed check and goes on
DriverSetupNoReturn ==
    /\ mainPc = "start"
    /\ \E ok \in BOOLEAN :
        /\ toolCheck' = IF ok THEN "ok" ELSE "failed"
        /\ IF numBatches = 0 THEN mainPc' = "nobatch" /\ UNCHANGED batchIdx
           ELSE mainPc' = "loop" /\ batchIdx' = 1
    /\ UNCHANGED <<numBatches, batchState, resumeMode, seen>>
    /\ UNCHANGED poolVars
    /\ UNCHANGED notMain

\* lines 407-478: if not check_openbabel(): return; no batch folder: return
DriverSetup ==
    /\ mainPc = "start"
    /\ \E ok \in BOOLEAN :
        /\ toolCheck' = IF ok THEN "ok" ELSE "failed"
        /\ IF ~ok THEN mainPc' = "aborted" /\ UNCHANGED batchIdx
           ELSE IF numBatches = 0 THEN mainPc' = "nobatch" /\ UNCHANGED batchIdx
           ELSE mainPc' = "loop" /\ batchIdx' = 1
    /\ UNCHANGED <<numBatches, batchState, resumeMode, seen>>
    /\ UNCHANGED poolVars
    /\ UNCHANGED notMain

\* lines 480-499: the resume check of the batch the loop has reached; the
\* batch is skipped, or the batch function is called for it
DriverDecide ==
    /\ mainPc = "loop"
    /\ batchIdx <= numBatches
    /\ batchState[batchIdx] = "Discovered"
    /\ \E f \in BatchFolders :
        LET n == Len(f.files)
            p == Cardinality({r \in 1..n : f.files[r] # "absent"})
        IN  /\ seen' = [exists |-> f.exists, sdf |-> n, pdbqt |-> p]
            /\ IF SkipBatch(check_batch_completion(f.exists, n, p))
               THEN /\ batchState' = [batchState EXCEPT ![batchIdx] = "Skip"]
                    /\ UNCHANGED poolVars
               ELSE /\ batchState' = [batchState EXCEPT ![batchIdx] = "Run"]
                    /\ poolPc' = "called"
                    /\ sdfCount' = n
                    /\ files' = f.files
                    /\ statErr' = f.statErr
                    /\ takes' = [r \in 1..n |-> 0]
                    /\ puts' = [r \in 1..n |-> 0]
                    /\ sent' = [r \in 1..n |-> NoResult]
                    /\ UNCHANGED <<num_processes, total_files, managerUp,
                                   task_queue, result_queue, atGet, running,
                                   exited, monitor, stalls, ret>>
    /\ UNCHANGED <<mainPc, numBatches, batchIdx, resumeMode, toolCheck>>
    /\ UNCHANGED notMain

\* skipped_batches += 1; continue
DriverContinue ==
    /\ mainPc = "loop"
    /\ batchIdx <= numBatches
    /\ batchState[batchIdx] = "Skip"
    /\ batchIdx' = batchIdx + 1
    /\ seen' = NoFolders
    /\ UNCHANGED <<mainPc, numBatches, batchState, resumeMode, toolCheck>>
    /\ UNCHANGED poolVars
    /\ UNCHANGED notMain

\* lines 501-508: the batch function has returned and the loop goes on; the
\* totals it adds up are followed in SpecTotals.  The manager goes with
\* the frame of the batch function, and a worker still waiting on the emptied
\* task queue ends there.
DriverBatchDone ==
    /\ mainPc = "loop"
    /\ batchIdx <= numBatches
    /\ batchState[batchIdx] = "Run"
    /\ poolPc = "returned"
    /\ batchIdx' = batchIdx + 1
    /\ seen' = NoFolders
    /\ poolPc' = "idle" /\ sdfCount' = 0
    /\ statErr' = <<>> /\ files' = <<>> /\ total_files' = 0
    /\ managerUp' = FALSE /\ task_queue' = <<>> /\ result_queue' = <<>>
    /\ atGet' = 0 /\ running' = {} /\ exited' = 0 /\ monitor' = MonitorIdle
    /\ stalls' = 0 /\ takes' = <<>> /\ puts' = <<>> /\ sent' = <<>> /\ ret' = Counts(0, 0, 0)
    /\ UNCHANGED <<mainPc, numBatches, batchState, resumeMode, toolCheck,
                   num_processes>>
    /\ UNCHANGED notMain

\* lines 510-527: the final summary
DriverSummary ==
    /\ mainPc = "loop"
    /\ batchIdx > numBatches
    /\ mainPc' = "ended"
    /\ UNCHANGED <<numBatches, batchIdx, batchState, resumeMode, seen, toolCheck>>
    /\ UNCHANGED poolVars
    /\ UNCHANGED notMain

\* processed_batches: one for every batch the batch function was called on and
\* returned for
processed_batches ==
    Cardinality({b \in 1..numBatches : b < batchIdx /\ batchState[b] = "Run"})

\* main() has returned
MainReturned == mainPc \in {"aborted", "nobatch", "ended"}

\* the exit status of the process: main() ends by a bare return (lines 432,
\* 440, 451, 465) or by reaching its end, its value is not looked at by
\* __main__ and sys.exit is never called, so the interpreter exits with 0
ExitStatus ==
    CASE mainPc = "aborted" -> 0
      [] mainPc = "nobatch" -> 0
      [] mainPc = "ended"   -> 0
      [] OTHER              -> -1

NextMain ==
    \/ DriverSetup
    \/ DriverDecide
    \/ DriverContinue
    \/ DriverBatchDone
    \/ DriverSummary
    \/ PoolStart
    \/ WorkerGet
    \/ WorkerQueueEmpty
    \/ \E r \in running : WorkerRun(r)
    \/ MonitorGet
    \/ MonitorQueueEmpty
    \/ MonitorLoopEnd
    \/ PoolReturn

SpecMain == InitMain /\ [][NextMain]_vars

-----------------------------------------------------------------------------
(* Claims about one batch run (SpecPool).                                  *)

\* C1: when process_batch_folder_parallel returns for a batch of N >= 1
\* records, run by any number of workers, the counts it returns add up to N.
C1_CompletenessConservation ==
    (poolPc = "returned" /\ sdfCount >= 1) =>
        ret.successful + ret.failed + ret.skipped = sdfCount

C1_Witness ==
    /\ poolPc = "returned" /\ sdfCount = 3 /\ num_processes = 2
    /\ ret = Counts(1, 1, 1)

\* C2: every task is taken from the task queue at most once, and every task
\* that was taken and is no longer being converted has exactly one result put
\* on the result queue.
C2_ExactlyOneResult ==
    \A r \in DOMAIN takes :
        /\ takes[r] <= 1
        /\ puts[r] <= takes[r]
        /\ (takes[r] = 1 /\ r \notin running) => puts[r] = 1

\* C3: once a wait for a result has timed out with every worker gone and
\* results still missing, progress_monitor has left its loop.
C3_StallEndsWait ==
    stalls > 0 => (monitor.pc = "summary" \/ poolPc = "returned")

-----------------------------------------------------------------------------
(* Claims about one call of convert_single_file (SpecPipe).                *)

Returned == pipePc = "done" /\ ~res.raised

AllExitZero(calls) == \A i \in 1..Len(calls) : calls[i].kind = "exit0"

\* C4: with overwrite off and a target of non-zero size, the call returns the
\* success/skipped outcome, has made no external call, has created no scratch
\* file and has left the target as it was.
C4_IdempotencyGate ==
    (pipePc = "done" /\ ~inv.overwrite /\ HasData(inv.out0)) =>
        /\ ~res.raised /\ res.success /\ res.exit = "gate"
        /\ res.calls = <<>>
        /\ res.temp = inv.temp0
        /\ res.out = inv.out0

C4_Witness ==
    /\ pipePc = "done" /\ inv.variant = "converter"
    /\ ~inv.overwrite /\ inv.out0 = "old" /\ inv.temp0 = "absent"
    /\ res.exit = "gate"

\* C5: a call returns Converted (success, not skipped) only with a target of
\* non-zero size in place, whatever the tools' exit statuses were; a call that
\* returns with the target absent or empty returns Failed.
C5_ConvertedHasArtifact ==
    Returned =>
        /\ (res.success /\ res.exit # "gate") => HasData(res.out)
        /\ ~HasData(res.out) => ~res.success

\* every tool exited 0 through all the stages, and the target is not there
C5_Witness ==
    /\ Returned /\ inv.variant = "converter" /\ inv.strategy = "balanced"
    /\ Len(res.calls) >= 4 /\ AllExitZero(res.calls)
    /\ ~HasData(res.out) /\ res.exit = "final"

\* C6: after the call has returned, with any outcome, the scratch file it made
\* is gone.
C6_ScratchRemoved ==
    (Returned /\ inv.temp0 = "absent") => res.temp = "absent"

\* C7: a timeout of the primary call of stage 1 or stage 3 is followed by the
\* fallback call of that stage, as a non-zero exit is.
C7_TimeoutTakesFallback ==
    Returned =>
        \A i \in 1..Len(res.calls) :
            /\ (res.calls[i].cmd = "gen3D" /\ res.calls[i].kind = "timeout") =>
                    (i < Len(res.calls) /\ res.calls[i + 1].cmd = "build")
            /\ (res.calls[i].cmd = "prepare_ligand4" /\ res.calls[i].kind = "timeout") =>
                    (i < Len(res.calls) /\ res.calls[i + 1].cmd = "obabel_pdbqt")

\* C8: a call that returns a failure for a record that had no target leaves no
\* target of non-zero size.
C8_FailedLeavesNoArtifact ==
    (Returned /\ ~res.success /\ inv.out0 = "absent") => ~HasData(res.out)

-----------------------------------------------------------------------------
(* Claims about the classification of a batch (SpecClassify).              *)

\* C10 as stated: Complete if and only if inputCount > 0 and
\* outputCount/inputCount >= 0.95; a batch with inputCount = 0 is Unstarted
\* for every outputCount, without a division error; otherwise Unstarted when
\* outputCount = 0 and Partial when outputCount > 0.
C10_EmptyInputUnstarted ==
    clsPc = "done" =>
        /\ ~clsOut.raised
        /\ clsOut.status = "Complete" <=>
                (clsIn.sdf > 0 /\ 20 * clsIn.pdbqt >= 19 * clsIn.sdf)
        /\ clsIn.sdf = 0 => clsOut.status = "Unstarted"
        /\ (clsIn.sdf > 0 /\ clsOut.status # "Complete") =>
                clsOut.status = (IF clsIn.pdbqt = 0 THEN "Unstarted" ELSE "Partial")

\* C10: classification is a function of the two counts and raises no
\* division error: Complete if and only if inputCount > 0 and
\* outputCount/inputCount >= 0.95; every other batch, one with inputCount = 0
\* included, is Unstarted when outputCount = 0 and Partial when
\* outputCount > 0.
C10_Classification ==
    clsPc = "done" =>
        /\ ~clsOut.raised
        /\ clsOut.status = "Complete" <=>
                (clsIn.sdf > 0 /\ 20 * clsIn.pdbqt >= 19 * clsIn.sdf)
        /\ clsOut.status # "Complete" =>
                clsOut.status = (IF clsIn.pdbqt = 0 THEN "Unstarted" ELSE "Partial")

C10_Witness ==
    /\ clsPc = "done" /\ clsIn.exists /\ clsIn.sdf = 0 /\ clsIn.pdbqt = 2
    /\ clsOut.status = "Partial" /\ ~clsOut.raised

-----------------------------------------------------------------------------
(* Claims about a run and the run after it (SpecRun).                      *)

\* the batch held at least 95% as many *.pdbqt files as *.sdf files when run
\* n reached it
CompleteAtStart(n) ==
    atStart[n].sdf > 0 /\ 20 * atStart[n].pdbqt >= 19 * atStart[n].sdf

\* C9 as stated: a record that ended Failed in the first run has
\* convert_single_file called for it by the second run, whatever the batch
\* and the number of its failed records.
C9_FailedRetried ==
    (runNo = 2 /\ runPc = "ended") =>
        \A r \in DOMAIN target :
            outcome[1][r] = "failed" => outcome[2][r] # "none"

\* C9: when the second run has passed its set-up check and got through the
\* batch, a record that ended Failed in the first run has had
\* convert_single_file called for it again exactly if the batch held fewer
\* than 95% as many *.pdbqt files, of any size, as *.sdf files when the second
\* run reached it; otherwise the batch was skipped whole.
C9_FailedRetriedUnlessComplete ==
    (runNo = 2 /\ runPc = "ended") =>
        \A r \in DOMAIN target :
            outcome[1][r] = "failed" =>
                (outcome[2][r] # "none" <=> ~CompleteAtStart(2))

C9_Witness ==
    /\ runNo = 2 /\ runPc = "ended" /\ doneBefore = 18 /\ Len(target) = 2
    /\ outcome[1][1] = "failed" /\ outcome[1][2] = "failed"
    /\ ~CompleteAtStart(2)
    /\ outcome[2][1] = "converted"

-----------------------------------------------------------------------------
(* Claims about a run of main() over its batches (SpecMain).               *)

\* the loop of main() has taken its decision for batch b
Decided(b) == batchState[b] # "Discovered"

\* C11: a batch the loop has reached is skipped exactly when resume mode is
\* on and the batch holds at least 95% as many *.pdbqt as *.sdf files, and is
\* run otherwise; for a skipped batch no output folder is made, no worker is
\* started and no record is taken; every batch the loop has passed is skipped
\* or run, and every batch it has not reached is Discovered.
C11_SkipOrRun ==
    /\ \A b \in 1..numBatches :
        /\ b < batchIdx => batchState[b] \in {"Skip", "Run"}
        /\ b > batchIdx => batchState[b] = "Discovered"
    /\ (mainPc = "loop" /\ batchIdx <= numBatches /\ Decided(batchIdx)) =>
        /\ batchState[batchIdx] = "Skip" <=>
                (resumeMode /\ seen.sdf > 0 /\ 20 * seen.pdbqt >= 19 * seen.sdf)
        /\ batchState[batchIdx] = "Skip" =>
                (poolPc = "idle" /\ ~FolderMade /\ ~WorkersStarted /\ takes = <<>>)
        /\ batchState[batchIdx] = "Run" => poolPc # "idle"
    /\ mainPc = "ended" => \A b \in 1..numBatches : Decided(b)

\* the first batch was run with resume mode on, the second is skipped
C11_Witness ==
    /\ mainPc = "loop" /\ numBatches = 2 /\ batchIdx = 2 /\ resumeMode
    /\ batchState = <<"Run", "Skip">>
    /\ seen = [exists |-> TRUE, sdf |-> 2, pdbqt |-> 2]

-----------------------------------------------------------------------------
(* Claims about a record over two runs (SpecRun).                          *)

\* C12 as stated: when the second run over the batch has ended, every record
\* the first run Converted was reported Skipped by the second, which ran no
\* external tool for it and left its target as the first run wrote it.
C12_SecondRunReportsSkipped ==
    (runNo = 2 /\ runPc = "ended") =>
        \A r \in DOMAIN target :
            outcome[1][r] = "converted" =>
                /\ outcome[2][r] = "skipped"
                /\ ~extCalls[2][r]
                /\ target[r] = RunTag(1)

\* C12: with overwrite off, the second run runs no external tool for a record
\* the first run Converted and leaves its target as the first run wrote it;
\* when the second run has ended it has reported the record Skipped, unless
\* the batch was classified Complete under resume mode and skipped whole, in
\* which case it has reported nothing for the record.
C12_SecondRunLeavesConverted ==
    runNo = 2 =>
        \A r \in DOMAIN target :
            outcome[1][r] = "converted" =>
                /\ outcome[2][r] \in {"none", "skipped"}
                /\ ~extCalls[2][r]
                /\ target[r] = RunTag(1)
                /\ runPc = "ended" =>
                    (outcome[2][r] = "skipped" <=> ~(resumeMode /\ CompleteAtStart(2)))

\* one record converted and one failed by the first run: the second run goes
\* through the batch and finds the first at the gate
C12_Witness ==
    /\ runNo = 2 /\ runPc = "ended" /\ doneBefore = 0 /\ Len(target) = 2
    /\ outcome[1] = <<"converted", "failed">>
    /\ outcome[2][1] = "skipped" /\ extCalls[1][1] /\ ~extCalls[2][1]
    /\ target[1] = RunTag(1)

-----------------------------------------------------------------------------
(* Claims about the stages of one call (SpecPipe).                         *)

\* a stage-1 call that ended without an exception and did not succeed: a
\* non-zero exit, or no intermediate file, or an empty one
Stage1Failed(c) == c.kind \in {"exit0", "exit1"} /\ ~(c.kind = "exit0" /\ HasData(c.file))

Stage1Ok(c) == c.kind = "exit0" /\ HasData(c.file)

Minimizers == {"cg500", "sd500", "cg1000", "sd1000", "cg2000"}

Stage3Calls == {"prepare_ligand4", "obabel_pdbqt"}

\* the primary stage-1 call failed and the fallback was called
FellBack == 
    /\ Returned /\ Len(res.calls) >= 2
    /\ res.calls[1].cmd = "gen3D" /\ Stage1Failed(res.calls[1])
    /\ res.calls[2].cmd = "build"

\* every minimisation call exited 0, the last call is a stage-3 call that
\* exited 0, and the target has data
LaterStagesOk ==
    /\ \A i \in 3..Len(res.calls) :
            res.calls[i].cmd \in Minimizers => res.calls[i].kind = "exit0"
    /\ res.calls[Len(res.calls)].cmd \in Stage3Calls
    /\ res.calls[Len(res.calls)].kind = "exit0"
    /\ HasData(res.out)

\* C13: when the primary stage-1 call fails (non-zero exit, or intermediate
\* file absent or empty) and the fallback succeeds, the call does not end at
\* stage 1 but goes on to the later stages, and if stages 2 and 3 and the
\* final check succeed it returns Converted.
C13_FallbackConverts ==
    (FellBack /\ Stage1Ok(res.calls[2])) =>
        /\ res.exit # "stage1"
        /\ Len(res.calls) >= 3
        /\ LaterStagesOk => (res.success /\ res.exit = "converted")

C13_Witness ==
    /\ FellBack /\ inv.variant = "converter" /\ inv.strategy = "fast"
    /\ res.calls[1].kind = "exit1" /\ Stage1Ok(res.calls[2])
    /\ LaterStagesOk /\ res.exit = "converted"

\* C14: when the primary and the fallback stage-1 call both fail (non-zero
\* exit, or intermediate file absent or empty), the call returns Failed at
\* stage 1 and the fallback is its last external call.
C14_BothFailStopAtStage1 ==
    (FellBack /\ Stage1Failed(res.calls[2])) =>
        /\ ~res.success /\ res.exit = "stage1"
        /\ Len(res.calls) = 2

\* the sub-steps of stage 2 for a strategy
SubSteps(strategy) ==
    CASE strategy = "fast"     -> <<"cg500">>
      [] strategy = "balanced" -> <<"sd500", "cg1000">>
      [] strategy = "thorough" -> <<"sd1000", "cg2000">>

\* the positions of the minimisation calls among the calls made
MinAt == {i \in 1..Len(res.calls) : res.calls[i].cmd \in Minimizers}

\* C15: for the strategies fast, balanced and thorough the minimisation calls
\* made are the sub-steps of the strategy, in order (one for fast, two for the
\* others); a sub-step other than the first is made right after the one
\* before it exited 0; a stage-3 call is made only after every sub-step
\* exited 0; a sub-step that exits non-zero is the last call and the call
\* returns Failed at stage 2.
C15_Stage2SubSteps ==
    (Returned /\ inv.strategy \in {"fast", "balanced", "thorough"}) =>
        /\ \A i \in MinAt :
            LET k == Cardinality({j \in MinAt : j <= i}) IN
                /\ k <= Len(SubSteps(inv.strategy))
                /\ res.calls[i].cmd = SubSteps(inv.strategy)[k]
                /\ k > 1 => (i - 1 \in MinAt /\ res.calls[i - 1].kind = "exit0")
                /\ res.calls[i].kind = "exit1" =>
                        (i = Len(res.calls) /\ ~res.success /\ res.exit = "stage2")
        /\ (\E i \in 1..Len(res.calls) : res.calls[i].cmd \in Stage3Calls) =>
                /\ Cardinality(MinAt) = Len(SubSteps(inv.strategy))
                /\ \A i \in MinAt : res.calls[i].kind = "exit0"

C15_Witness ==
    /\ Returned /\ inv.variant = "converter" /\ inv.strategy = "balanced"
    /\ Cardinality(MinAt) = 2
    /\ res.calls[Len(res.calls)].cmd = "cg1000"
    /\ res.calls[Len(res.calls)].kind = "exit1"
    /\ res.exit = "stage2"

\* a stage-3 call that wrote, or found, a target with data and exited 0
Stage3Ok(c) == c.kind = "exit0" /\ HasData(c.file)

-----------------------------------------------------------------------------
(* Claims about the batches of a run and their workers (SpecMain).         *)

\* C17: the workers and the tasks at any moment are those of the one batch
\* the loop of main() is at, which it has decided to run; no batch after it
\* has been looked at; before the batch function has started its workers no
\* record is being converted; and when the batch function has returned every
\* task of the batch was taken and has given its result, so that no record
\* of the batch is being converted or waits to be.
C17_BatchesSequential ==
    /\ poolPc # "idle" =>
        /\ mainPc = "loop" /\ batchIdx <= numBatches
        /\ batchState[batchIdx] = "Run"
    /\ \A b \in 1..numBatches : b > batchIdx => batchState[b] = "Discovered"
    /\ poolPc \in {"idle", "called"} =>
        (running = {} /\ atGet = 0 /\ task_queue = <<>>)
    /\ poolPc = "returned" =>
        /\ running = {} /\ task_queue = <<>>
        /\ \A r \in DOMAIN takes : takes[r] = 1 /\ puts[r] = 1

\* the first batch was run and has returned; a record of the second is being
\* converted
C17_Witness ==
    /\ mainPc = "loop" /\ numBatches = 2 /\ batchIdx = 2
    /\ batchState = <<"Run", "Run">>
    /\ poolPc = "monitor" /\ running # {}

-----------------------------------------------------------------------------
(* Claims about the workers of one batch run (SpecPool).                   *)

\* C18: at every moment of a batch run the records inside convert_single_file
\* are at most num_processes, whatever the number of tasks: each of the
\* num_processes workers started is waiting for a task, converting one record
\* or gone.
C18_BoundedParallelism ==
    /\ Cardinality(running) <= num_processes
    /\ poolPc \in {"monitor", "returned"} /\ total_files > 0 =>
            atGet + Cardinality(running) + exited = num_processes

\* more tasks than workers: every worker is converting and a task waits
C18_Witness ==
    /\ sdfCount = 3 /\ num_processes = 2
    /\ Cardinality(running) = 2 /\ Len(task_queue) = 1

\* no record of the batch has a target that cannot be stat'ed
NoRaiser == \A r \in DOMAIN statErr : ~statErr[r]

\* a step of the batch function, of its monitor or of one of its workers
\* that moves the batch on
BatchStep ==
    \/ PoolStart
    \/ WorkerGet
    \/ \E r \in running : WorkerRun(r)
    \/ MonitorGet
    \/ MonitorLoopEnd
    \/ PoolReturn

C20_SetupFailureStops ==
    toolCheck = "failed" =>
        /\ mainPc = "aborted" /\ batchIdx = 0
        /\ \A b \in 1..numBatches : batchState[b] = "Discovered"
        /\ seen = NoFolders
        /\ poolPc = "idle" /\ ~FolderMade /\ ~WorkersStarted /\ ~managerUp
        /\ takes = <<>> /\ task_queue = <<>>
        /\ ~ENABLED NextMain

C20_Witness ==
    /\ toolCheck = "failed" /\ mainPc = "aborted" /\ numBatches = 2
    /\ batchState = <<"Discovered", "Discovered">>

-----------------------------------------------------------------------------
(* Claims about the end of a run of main() (SpecMain).                     *)

\* C21: when main() has returned, the exit status of the process is non-zero
\* exactly if the set-up check failed.
C21_ExitStatus ==
    MainReturned => (ExitStatus # 0 <=> toolCheck = "failed")

-----------------------------------------------------------------------------
(* The scratch and target paths of the calls of convert_single_file.  A    *)
(* file name is a sequence of characters; every path of one batch has the  *)
(* same folder, the output folder of the batch, so a path is its name.     *)

MaxPathFiles == 2

SdfExt == <<".", "s", "d", "f">>

PdbqtExt == <<".", "p", "d", "b", "q", "t">>

\* the names a batch folder may hold
FolderNames ==
    { <<"a">> \o SdfExt, <<"a", ".", "b">> \o SdfExt,
      SdfExt, SdfExt \o SdfExt, <<"a">> \o PdbqtExt }

\* the code points of the characters of the names used
Ord ==
    [c \in {".", "0", "1", "2", "_", "a", "b", "c", "d", "f", "h", "p", "q", "s", "t"} |->
        CASE c = "." -> 46 [] c = "0" -> 48 [] c = "1" -> 49 [] c = "2" -> 50
          [] c = "_" -> 95 [] c = "a" -> 97 [] c = "b" -> 98 [] c = "c" -> 99
          [] c = "d" -> 100 [] c = "f" -> 102 [] c = "h" -> 104 [] c = "p" -> 112
          [] c = "q" -> 113 [] c = "s" -> 115 [] c = "t" -> 116]

\* name.rfind('.') counted from 1; 0 when the name has no dot
LastDot(name) ==
    IF \E p \in 1..Len(name) : name[p] = "."
    THEN CHOOSE p \in 1..Len(name) :
            name[p] = "." /\ \A q \in (p + 1)..Len(name) : name[q] # "."
    ELSE 0

\* PurePath.stem: the name without its last suffix; a dot that begins or ends
\* the name starts no suffix
stem(name) ==
    LET p == LastDot(name)
    IN  IF 1 < p /\ p < Len(name) THEN SubSeq(name, 1, p - 1) ELSE name

\* PurePath.with_suffix
with_suffix(name, suffix) == stem(name) \o suffix

\* batch_folder.glob("*.sdf")
Glob(names) ==
    { f \in names : Len(f) >= Len(SdfExt)
                    /\ SubSeq(f, Len(f) - Len(SdfExt) + 1, Len(f)) = SdfExt }

RECURSIVE StrLess(_, _)
\* s < t on str
StrLess(s, t) ==
    IF s = <<>> THEN t # <<>>
    ELSE IF t = <<>> THEN FALSE
    ELSE IF s[1] = t[1] THEN StrLess(Tail(s), Tail(t))
    ELSE Ord[s[1]] < Ord[t[1]]

RECURSIVE Sorted(_)
\* sorted(list(...))
Sorted(names) ==
    IF names = {} THEN <<>>
    ELSE LET m == CHOOSE x \in names : \A y \in names \ {x} : StrLess(x, y)
         IN  <<m>> \o Sorted(names \ {m})

\* the scratch path of the converter's convert_single_file
ConverterTemp(output_file, process_id) ==
    with_suffix(output_file, <<".", "t", "e", "m", "p", "_", "3", "d", "_", "p",
                               ToString(process_id)>> \o SdfExt)

\* the scratch path of worker.py's convert_single_file
WorkerTemp(input_file, output_file) ==
    with_suffix(output_file, <<".">> \o stem(input_file)
                             \o <<".", "t", "e", "m", "p">> \o SdfExt)

\* the call made for the file at position i (from 0) of sdf_files: the
\* converter's task, or worker.py started with the target the converter gives
TaskOf(tool, i, sdf_file, n) ==
    LET output_file == stem(sdf_file) \o PdbqtExt
    IN  [input |-> sdf_file, target |-> output_file,
         scratch |-> IF tool = "converter" THEN ConverterTemp(output_file, i % n)
                     ELSE WorkerTemp(sdf_file, output_file)]

\* two runs that overlap
Runs == {1, 2}

\* two runs of one program started on one batch folder and one output tree
\* that holds no target yet
InitPaths ==
    /\ CoreIdle /\ FilterIdle /\ SelectIdle /\ SplitIdle /\ ExtractIdle /\ TotalsIdle
    /\ pathTool \in {"converter", "worker"}
    /\ \E S \in SUBSET FolderNames :
          /\ Cardinality(Glob(S)) \in 1..MaxPathFiles
          /\ pathFiles = Sorted(Glob(S))
    /\ pathProcs \in [Runs -> 1..MaxWorkers]
    /\ taken = [run \in Runs |-> 0]
    /\ active = {} /\ written = {}

\* a worker of the run takes the next task and calls convert_single_file,
\* which returns at once when the target holds data
PathCallStart(run) ==
    LET i == taken[run]
    IN  /\ i < Len(pathFiles)
        /\ Cardinality({a \in active : a.run = run}) < pathProcs[run]
        /\ LET task == TaskOf(pathTool, i, pathFiles[i + 1], pathProcs[run])
           IN  active' = IF ~OVERWRITE_EXISTING /\ task.target \in written
                         THEN active
                         ELSE active \cup {[run |-> run, i |-> i,
                                            input |-> task.input,
                                            scratch |-> task.scratch,
                                            target |-> task.target]}
        /\ taken' = [taken EXCEPT ![run] = i + 1]
        /\ UNCHANGED <<pathTool, pathFiles, pathProcs, written, notPath>>

\* the call of the run for position i ends, with or without data in its target
PathCallEnd(run, i) ==
    \E a \in active :
        /\ a.run = run /\ a.i = i
        /\ active' = active \ {a}
        /\ written' \in {written, written \cup {a.target}}
    /\ UNCHANGED <<pathTool, pathFiles, pathProcs, taken, notPath>>

NextPaths ==
    \/ \E run \in Runs : PathCallStart(run)
    \/ \E run \in Runs, i \in 0..(MaxPathFiles - 1) : PathCallEnd(run, i)

SpecPaths == InitPaths /\ [][NextPaths]_vars

\* C22: no two calls of convert_single_file that are under way at the same time
\* have the same scratch path or the same target path.
C22_UniquePaths ==
    \A a \in active : \A b \in active \ {a} :
        a.scratch # b.scratch /\ a.target # b.target

-----------------------------------------------------------------------------
(* The pool of analyze_and_filter_sdf.py: main() calls process_single_batch *)
(* on each batch folder in turn.  The queues are mp.Queue objects: a put    *)
(* hands the item to a feeder thread, and get_nowait sees only what the     *)
(* feeder has sent.                                                         *)

MaxFilterFiles == 2

FilterCount(i, passed, rejected) == [i |-> i, passed |-> passed, rejected |-> rejected]

\* main() of the filter has found its batch folders
InitFilter ==
    /\ CoreIdle /\ PathIdle /\ SelectIdle /\ SplitIdle /\ ExtractIdle /\ TotalsIdle
    /\ filtPc = "main"
    /\ filtBatch \in 1..MaxBatches
    /\ filtTotal = 0 /\ filtPut = 0 /\ filtTasks = 0
    /\ filtWorker = <<>> /\ filtResults = <<>>
    /\ filtCount = FilterCount(0, 0, 0)
    /\ filtGaveUp = FALSE /\ filtJoined = 0

\* process_single_batch up to the start of the result loop: the files are
\* listed, the tasks put, the processes started; without files it returns
FilterStart(n, procs) ==
    /\ filtPc = "main" /\ filtBatch > 0
    /\ filtTotal' = n
    /\ filtPut' = n /\ filtTasks' = 0
    /\ filtResults' = <<>> /\ filtCount' = FilterCount(0, 0, 0)
    /\ filtGaveUp' = FALSE /\ filtJoined' = 0
    /\ IF n = 0
       THEN /\ filtPc' = "returned"
            /\ filtWorker' = <<>>
       ELSE /\ filtPc' = "collect"
            /\ filtWorker' = [w \in 1..procs |-> "get"]
    /\ UNCHANGED <<filtBatch, notFilt>>

\* the feeder thread of task_queue sends one task
FilterFeed ==
    /\ filtPut > 0
    /\ filtPut' = filtPut - 1 /\ filtTasks' = filtTasks + 1
    /\ UNCHANGED <<filtPc, filtBatch, filtTotal, filtWorker, filtResults, filtCount,
                   filtGaveUp, filtJoined, notFilt>>

\* worker_process: get_nowait gives a task
FilterGet(w) ==
    /\ w \in DOMAIN filtWorker /\ filtWorker[w] = "get"
    /\ filtTasks > 0
    /\ filtTasks' = filtTasks - 1
    /\ filtWorker' = [filtWorker EXCEPT ![w] = "busy"]
    /\ UNCHANGED <<filtPc, filtBatch, filtTotal, filtPut, filtResults, filtCount,
                   filtGaveUp, filtJoined, notFilt>>

\* worker_process: get_nowait raises Empty, the process ends
FilterEmpty(w) ==
    /\ w \in DOMAIN filtWorker /\ filtWorker[w] = "get"
    /\ filtTasks = 0
    /\ filtWorker' = [filtWorker EXCEPT ![w] = "exited"]
    /\ UNCHANGED <<filtPc, filtBatch, filtTotal, filtPut, filtTasks, filtResults, filtCount,
                   filtGaveUp, filtJoined, notFilt>>

\* analyze_single_file returns (it catches every exception) and the result is put
FilterDone(w, status) ==
    /\ w \in DOMAIN filtWorker /\ filtWorker[w] = "busy"
    /\ filtResults' = Append(filtResults, status)
    /\ filtWorker' = [filtWorker EXCEPT ![w] = "get"]
    /\ UNCHANGED <<filtPc, filtBatch, filtTotal, filtPut, filtTasks, filtCount,
                   filtGaveUp, filtJoined, notFilt>>

\* analyze_single_file does not return: no call in it has a timeout
FilterHang(w) ==
    /\ w \in DOMAIN filtWorker /\ filtWorker[w] = "busy"
    /\ filtWorker' = [filtWorker EXCEPT ![w] = "hung"]
    /\ UNCHANGED <<filtPc, filtBatch, filtTotal, filtPut, filtTasks, filtResults, filtCount,
                   filtGaveUp, filtJoined, notFilt>>

\* the result loop: result_queue.get(timeout=120) gives a result
FilterCollect ==
    /\ filtPc = "collect" /\ filtResults # <<>>
    /\ filtResults' = Tail(filtResults)
    /\ filtCount' = IF Head(filtResults) = "PASSED"
                    THEN FilterCount(filtCount.i + 1, filtCount.passed + 1, filtCount.rejected)
                    ELSE FilterCount(filtCount.i + 1, filtCount.passed, filtCount.rejected + 1)
    /\ filtPc' = IF filtCount.i + 1 = filtTotal THEN "join" ELSE "collect"
    /\ UNCHANGED <<filtBatch, filtTotal, filtPut, filtTasks, filtWorker, filtGaveUp,
                   filtJoined, notFilt>>

\* the result loop: no result for 120 s, the loop is left
FilterTimeout ==
    /\ filtPc = "collect" /\ filtResults = <<>>
    /\ filtGaveUp' = TRUE
    /\ filtPc' = "join"
    /\ UNCHANGED <<filtBatch, filtTotal, filtPut, filtTasks, filtWorker, filtResults,
                   filtCount, filtJoined, notFilt>>

\* p.join() returns for the next process, which has ended; after the last one
\* the summary is logged and process_single_batch returns
FilterJoin ==
    /\ filtPc = "join"
    /\ filtWorker[filtJoined + 1] = "exited"
    /\ filtJoined' = filtJoined + 1
    /\ filtPc' = IF filtJoined + 1 = Len(filtWorker) THEN "returned" ELSE "join"
    /\ UNCHANGED <<filtBatch, filtTotal, filtPut, filtTasks, filtWorker, filtResults,
                   filtCount, filtGaveUp, notFilt>>

\* main(): the loop goes to the next batch folder, or ends
FilterNextBatch ==
    /\ filtPc = "returned"
    /\ filtBatch' = filtBatch - 1
    /\ filtPc' = IF filtBatch = 1 THEN "ended" ELSE "main"
    /\ UNCHANGED <<filtTotal, filtPut, filtTasks, filtWorker, filtResults, filtCount,
                   filtGaveUp, filtJoined, notFilt>>

NextFilter ==
    \/ \E n \in 0..MaxFilterFiles, procs \in 1..MaxWorkers :
           FilterStart(n, procs)
    \/ FilterFeed
    \/ \E w \in 1..MaxWorkers : FilterGet(w)
    \/ \E w \in 1..MaxWorkers : FilterEmpty(w)
    \/ \E w \in 1..MaxWorkers, status \in {"PASSED", "REJECTED"} : FilterDone(w, status)
    \/ \E w \in 1..MaxWorkers : FilterHang(w)
    \/ FilterCollect
    \/ FilterTimeout
    \/ FilterJoin
    \/ FilterNextBatch

SpecFilter == InitFilter /\ [][NextFilter]_vars

\* C23: once the result loop has given up, the batch function goes on to its
\* return, and main() to the next batch, also when a worker is blocked inside a
\* task: it never waits for a process that will not end.
C23_GiveUpReturns ==
    (filtPc = "join" /\ filtGaveUp) => filtWorker[filtJoined + 1] # "hung"

-----------------------------------------------------------------------------
(* Claims about the counters of progress_monitor (SpecPool).               *)

\* progress_monitor takes the result at the head of result_queue
Received ==
    /\ poolPc = "monitor" /\ result_queue # <<>>
    /\ result_queue' = Tail(result_queue)

\* the counter a result belongs to
CounterOf(result) ==
    IF ~result.success THEN "failed"
    ELSE IF result.error = "Already exists (skipped)" THEN "skipped"
    ELSE "successful"

\* record A failed and left no target, B was converted, C was there before:
\* each had one result
OneOfEach ==
    /\ sdfCount = 3 /\ num_processes = 2
    /\ \A r \in 1..sdfCount : puts[r] = 1
    /\ \E a, b, c \in 1..sdfCount :
          /\ sent[a] = [success |-> FALSE, error |-> "failed"] /\ files[a] = "absent"
          /\ sent[b] = [success |-> TRUE, error |-> "None"]
          /\ sent[c] = [success |-> TRUE, error |-> "Already exists (skipped)"]

\* C24: every result progress_monitor receives adds one to completed and one to
\* exactly one of successful, failed and skipped, the one of its kind; so
\* completed = successful + failed + skipped <= total_files in every state; and
\* the batch of three records with one of each kind, run by two workers,
\* returns 1, 1, 1 whatever the order the results arrive in.
C24_OneCounterPerResult ==
    /\ [][Received =>
            LET k == CounterOf(Head(result_queue))
            IN  /\ monitor'.completed = monitor.completed + 1
                /\ monitor'.successful = monitor.successful + (IF k = "successful" THEN 1 ELSE 0)
                /\ monitor'.failed = monitor.failed + (IF k = "failed" THEN 1 ELSE 0)
                /\ monitor'.skipped = monitor.skipped + (IF k = "skipped" THEN 1 ELSE 0)]_vars
    /\ [](poolPc \in {"monitor", "returned"} =>
            /\ monitor.completed = monitor.successful + monitor.failed + monitor.skipped
            /\ monitor.completed <= total_files)
    /\ []((poolPc = "returned" /\ OneOfEach) => ret = Counts(1, 1, 1))

\* the batch of three has returned, its results having arrived in an order
\* other than the order of the records
C24_Witness ==
    /\ poolPc = "returned" /\ OneOfEach
    /\ ret = Counts(1, 1, 1)
    /\ sent[1].error = "Already exists (skipped)" /\ sent[2].error = "failed"
    /\ monitor.completed = 3

-----------------------------------------------------------------------------
(* Claims about a batch folder without records (SpecMain).                 *)

\* the loop of main() is at a batch
AtBatch == mainPc = "loop" /\ batchIdx \in 1..numBatches

\* main() runs the batch function on a batch folder without *.sdf files
EmptyRun == AtBatch /\ batchState[batchIdx] = "Run" /\ sdfCount = 0

\* C25: a batch folder without records is never skipped as completed; the
\* batch function called on it puts no task, starts no manager and no worker
\* and returns all zeros; main() then counts the batch as processed and goes
\* on to the next batch, or to the summary after the last.
C25_EmptyBatch ==
    /\ []((AtBatch /\ Decided(batchIdx) /\ seen.sdf = 0) => batchState[batchIdx] = "Run")
    /\ [](EmptyRun =>
            /\ poolPc \in {"called", "returned"}
            /\ task_queue = <<>> /\ total_files = 0
            /\ ~managerUp /\ ~WorkersStarted
            /\ poolPc = "returned" => (ret = Counts(0, 0, 0) /\ ENABLED DriverBatchDone))
    /\ [][(EmptyRun /\ poolPc = "called") => poolPc' = "returned"]_vars
    /\ [][(EmptyRun /\ poolPc = "returned") =>
            /\ processed_batches' = processed_batches + 1
            /\ batchIdx' = batchIdx + 1
            /\ mainPc' = "loop" /\ poolPc' = "idle"]_vars
    /\ []((mainPc = "loop" /\ poolPc = "idle" /\ ~(AtBatch /\ Decided(batchIdx))) =>
            ENABLED DriverDecide \/ ENABLED DriverSummary)

\* main(), in resume mode, has run the batch function on an empty first
\* batch, counted it and reached the second batch, which is empty too
C25_Witness ==
    /\ mainPc = "loop" /\ batchIdx = 2 /\ numBatches = 2
    /\ batchState[1] = "Run" /\ processed_batches = 1
    /\ poolPc = "called" /\ sdfCount = 0 /\ resumeMode

-----------------------------------------------------------------------------
(* The batches main() selects and the order its loop takes them in.        *)

MaxTargets == 2

BatchPrefix == <<"b", "a", "t", "c", "h", "_">>

\* the names the input directory may hold: batch_1, batch_10, batch_2, data
DirNames ==
    { BatchPrefix \o <<"1">>, BatchPrefix \o <<"1", "0">>, BatchPrefix \o <<"2">>,
      <<"d", "a", "t", "a">> }

\* item.name.startswith('batch_')
StartsWith(name, prefix) ==
    Len(name) >= Len(prefix) /\ SubSeq(name, 1, Len(prefix)) = prefix

RECURSIVE SortedDown(_)
\* get_batch_folders returning the folders in descending order
SortedDown(names) ==
    IF names = {} THEN <<>>
    ELSE LET m == CHOOSE x \in names : \A y \in names \ {x} : StrLess(y, x)
         IN  <<m>> \o SortedDown(names \ {m})

get_batch_folders_Unsorted(entries) ==
    SortedDown({name \in DOMAIN entries :
                    entries[name] = "dir" /\ StartsWith(name, BatchPrefix)})

\* lines 128-142; the input directory is there
get_batch_folders(entries) ==
    Sorted({name \in DOMAIN entries :
                entries[name] = "dir" /\ StartsWith(name, BatchPrefix)})

RECURSIVE SelectTargets(_, _)
\* lines 456-462: the names of TARGET_BATCHES that are in all_batch_folders,
\* in the order of TARGET_BATCHES
SelectTargets(targets, all_batch_folders) ==
    IF targets = <<>> THEN <<>>
    ELSE IF \E i \in DOMAIN all_batch_folders : all_batch_folders[i] = Head(targets)
         THEN <<Head(targets)>> \o SelectTargets(Tail(targets), all_batch_folders)
         ELSE SelectTargets(Tail(targets), all_batch_folders)

\* lines 435-468: the list main() goes through, or its return without one
SelectBatchesOf(cfg, entries) ==
    LET all_batch_folders == get_batch_folders(entries)
        selected ==
            IF cfg.TEST_MODE /\ cfg.AUTO_RUN_MODE = "test" /\ cfg.TEST_SINGLE_BATCH # <<>>
            THEN IF entries[cfg.TEST_SINGLE_BATCH] = "dir"
                 THEN <<cfg.TEST_SINGLE_BATCH>> ELSE <<>>
            ELSE IF cfg.PROCESS_ALL_BATCHES THEN all_batch_folders
            ELSE SelectTargets(cfg.TARGET_BATCHES, all_batch_folders)
    IN  IF all_batch_folders = <<>> THEN <<>> ELSE selected

\* the branch of lines 443-462 the configuration takes
SelectMode(cfg) ==
    IF cfg.TEST_MODE /\ cfg.AUTO_RUN_MODE = "test" /\ cfg.TEST_SINGLE_BATCH # <<>>
    THEN "test"
    ELSE IF cfg.PROCESS_ALL_BATCHES THEN "all" ELSE "selected"

\* TARGET_BATCHES: up to MaxTargets names
TargetLists == UNION {[1..n -> DirNames] : n \in 0..MaxTargets}

\* the configurations; a constant no branch reads has one value (None is <<>>)
SelectConfigs ==
    {cfg \in [TEST_MODE : BOOLEAN, AUTO_RUN_MODE : {"test", "full"},
              TEST_SINGLE_BATCH : DirNames \cup {<<>>},
              PROCESS_ALL_BATCHES : BOOLEAN, TARGET_BATCHES : TargetLists] :
        /\ ~cfg.TEST_MODE => (cfg.AUTO_RUN_MODE = "full" /\ cfg.TEST_SINGLE_BATCH = <<>>)
        /\ cfg.AUTO_RUN_MODE = "full" => cfg.TEST_SINGLE_BATCH = <<>>
        /\ SelectMode(cfg) # "selected" =>
                (cfg.PROCESS_ALL_BATCHES /\ cfg.TARGET_BATCHES = <<>>)}

\* main() has passed the set-up check; the input directory holds files and
\* directories
InitSelect ==
    /\ CoreIdle /\ PathIdle /\ FilterIdle /\ SplitIdle /\ ExtractIdle /\ TotalsIdle
    /\ selPc = "select"
    /\ selCfg \in SelectConfigs
    /\ selEntries \in [DirNames -> {"none", "file", "dir"}]
    /\ selList = <<>> /\ selDone = <<>>

\* lines 435-468
SelectBatches ==
    /\ selPc = "select"
    /\ selList' = SelectBatchesOf(selCfg, selEntries)
    /\ selPc' = IF selList' = <<>> THEN "returned" ELSE "loop"
    /\ UNCHANGED <<selCfg, selEntries, selDone, notSel>>

\* line 480: the loop takes the next batch of the list
SelectLoop ==
    /\ selPc = "loop" /\ Len(selDone) < Len(selList)
    /\ selDone' = Append(selDone, selList[Len(selDone) + 1])
    /\ UNCHANGED <<selPc, selCfg, selEntries, selList, notSel>>

\* lines 510-527: the loop is over
SelectEnd ==
    /\ selPc = "loop" /\ Len(selDone) = Len(selList)
    /\ selPc' = "returned"
    /\ UNCHANGED <<selCfg, selEntries, selList, selDone, notSel>>

NextSelect == SelectBatches \/ SelectLoop \/ SelectEnd

SpecSelect == InitSelect /\ [][NextSelect]_vars

\* s is t with some of its elements left out
RECURSIVE IsSubSeq(_, _)
IsSubSeq(s, t) ==
    IF s = <<>> THEN TRUE
    ELSE IF t = <<>> THEN FALSE
    ELSE IF Head(s) = Head(t) THEN IsSubSeq(Tail(s), Tail(t))
    ELSE IsSubSeq(s, Tail(t))

Ascending(s) == \A i \in 1..(Len(s) - 1) : StrLess(s[i], s[i + 1])

\* C26 as stated: the batches are taken in ascending order of name in every
\* selection mode, and every batch taken is a directory named batch_...
C26_AscendingEveryMode ==
    /\ Ascending(selDone)
    /\ \A i \in DOMAIN selDone :
          selEntries[selDone[i]] = "dir" /\ StartsWith(selDone[i], BatchPrefix)

\* C26: the loop takes the batches in the order of batches_to_process, every
\* batch taken being a directory.  When all batches are selected these are the
\* directories named batch_..., each once, in ascending order of name.  When
\* TARGET_BATCHES is used they are directories named batch_..., in the order
\* TARGET_BATCHES names them.  In test mode the one batch is the directory
\* TEST_SINGLE_BATCH, whatever its name.
C26_ListOrder ==
    /\ selDone = SubSeq(selList, 1, Len(selDone))
    /\ \A i \in DOMAIN selDone : selEntries[selDone[i]] = "dir"
    /\ (selPc # "select" /\ SelectMode(selCfg) = "all") =>
            /\ Ascending(selList)
            /\ \A name \in DirNames :
                  (\E i \in DOMAIN selList : selList[i] = name)
                      <=> (selEntries[name] = "dir" /\ StartsWith(name, BatchPrefix))
    /\ (selPc # "select" /\ SelectMode(selCfg) = "selected") =>
            /\ IsSubSeq(selList, selCfg.TARGET_BATCHES)
            /\ \A i \in DOMAIN selList : StartsWith(selList[i], BatchPrefix)
    /\ (selPc # "select" /\ SelectMode(selCfg) = "test") =>
            selList \in {<<>>, <<selCfg.TEST_SINGLE_BATCH>>}

\* all three batch folders were taken, batch_10 before batch_2
C26_Witness ==
    /\ selPc = "returned" /\ SelectMode(selCfg) = "all"
    /\ selDone = <<BatchPrefix \o <<"1">>, BatchPrefix \o <<"1", "0">>, BatchPrefix \o <<"2">>>>

-----------------------------------------------------------------------------
(* sdf_splitter.py.  A line is a sequence of tokens: " " is white space,   *)
(* "T" the text "> <DATABASE_ID>", "$" the text "$$$$", the others are      *)
(* characters of an ID; the line end is left out, strip() removes it.      *)

MaxSplitRecords == 3

MaxCapacity == 2

TagText == <<"T">>

EndText == <<"$">>

RECURSIVE LStrip(_)
LStrip(line) == IF line # <<>> /\ Head(line) = " " THEN LStrip(Tail(line)) ELSE line

RECURSIVE RStrip(_)
RStrip(line) ==
    IF line # <<>> /\ line[Len(line)] = " "
    THEN RStrip(SubSeq(line, 1, Len(line) - 1)) ELSE line

\* str.strip()
strip(line) == RStrip(LStrip(line))

\* Python's None, and a returned string
None == [found |-> FALSE, id |-> <<>>]

Str(text) == [found |-> TRUE, id |-> text]

RECURSIVE ExtractFrom(_, _)
\* the loop of extract_database_id from position i on
ExtractFrom(compound_lines, i) ==
    IF i > Len(compound_lines) THEN None
    ELSE IF /\ strip(compound_lines[i]) = TagText
            /\ i + 1 <= Len(compound_lines)
            /\ strip(compound_lines[i + 1]) # <<>>
         THEN Str(strip(compound_lines[i + 1]))
         ELSE ExtractFrom(compound_lines, i + 1)

RECURSIVE ExtractFirstTagFrom(_, _)
\* extract_database_id giving up at the first tag line
ExtractFirstTagFrom(compound_lines, i) ==
    IF i > Len(compound_lines) THEN None
    ELSE IF strip(compound_lines[i]) = TagText
         THEN IF i + 1 <= Len(compound_lines) /\ strip(compound_lines[i + 1]) # <<>>
              THEN Str(strip(compound_lines[i + 1]))
              ELSE None
         ELSE ExtractFirstTagFrom(compound_lines, i + 1)

extract_database_id_FirstTag(compound_lines) == ExtractFirstTagFrom(compound_lines, 1)

\* lines 158-175
extract_database_id(compound_lines) == ExtractFrom(compound_lines, 1)

\* the records an input file is made of: with ID A, with ID B, with ID A/B,
\* without a tag, with a blank line after the tag, with ID A and white
\* space around tag and ID, with the end line right after the tag
RecordShapes ==
    { <<TagText, <<"A">>, EndText>>,
      <<TagText, <<"B">>, EndText>>,
      <<TagText, <<"A", "/", "B">>, EndText>>,
      <<<<"A">>, EndText>>,
      <<TagText, <<" ">>, EndText>>,
      <<<<" ", "T", " ">>, <<" ", "A", " ">>, <<" ", "$">>>>,
      <<TagText, EndText>> }

RECURSIVE Concat(_)
Concat(seqs) == IF seqs = <<>> THEN <<>> ELSE Head(seqs) \o Concat(Tail(seqs))

\* the input files: up to MaxSplitRecords records, then nothing or a record
\* that is not ended; a file that is not there; a file whose bytes after these
\* lines cannot be decoded
SplitInputs ==
    {[exists |-> FALSE, lines |-> <<>>, undecodable |-> FALSE]} \cup
    UNION {
        {[exists |-> TRUE, lines |-> Concat(recs) \o trailer, undecodable |-> u] :
            recs \in [1..n -> RecordShapes], trailer \in {<<>>, <<TagText, <<"B">>>>},
            u \in BOOLEAN}
        : n \in 0..MaxSplitRecords}

\* open(file_path, 'w') works: the ID names no folder that is not there
Writable(database_id) == \A i \in DOMAIN database_id : database_id[i] # "/"

\* FolderFull letting one compound more in
FolderFullLate(current_folder_compounds, compounds_per_folder) ==
    current_folder_compounds > compounds_per_folder

\* line 77
FolderFull(current_folder_compounds, compounds_per_folder) ==
    current_folder_compounds >= compounds_per_folder

SplitCounters(f, c, n, e) ==
    [folder_count |-> f, current_folder_compounds |-> c, compound_count |-> n,
     error_count |-> e]

\* CountError taking a place in the folder for the record
CountErrorTakesPlace(c) ==
    [c EXCEPT !.error_count = @ + 1, !.current_folder_compounds = @ + 1]

\* lines 83 and 90: error_count += 1
CountError(c) == [c EXCEPT !.error_count = @ + 1]

\* the position of the first end line of lines, 0 without one
FirstEnd(lines) ==
    IF \E i \in DOMAIN lines : strip(lines[i]) = EndText
    THEN CHOOSE i \in DOMAIN lines :
            strip(lines[i]) = EndText /\ \A j \in 1..(i - 1) : strip(lines[j]) # EndText
    ELSE 0

\* split_sdf_file is called with an output directory that can be made and
\* holds nothing
InitSplit ==
    /\ CoreIdle /\ PathIdle /\ FilterIdle /\ SelectIdle /\ ExtractIdle /\ TotalsIdle
    /\ splitPc = "called"
    /\ \E f \in SplitInputs, k \in 1..MaxCapacity :
          splitInput = [exists |-> f.exists, lines |-> f.lines,
                        undecodable |-> f.undecodable, compounds_per_folder |-> k]
    /\ splitRest = <<>>
    /\ splitCount = SplitCounters(1, 0, 0, 0)
    /\ splitFolders = <<>> /\ splitLog = "none"

\* SplitOpen going on to the summary when the input is not there
SplitOpenNoReturn ==
    /\ splitPc = "called"
    /\ splitPc' = "read"
    /\ splitRest' = splitInput.lines
    /\ splitLog' = IF splitInput.exists THEN <<>> ELSE <<"FILE_NOT_FOUND">>
    /\ UNCHANGED <<splitInput, splitCount, splitFolders, notSplit>>

\* lines 20-46 and 99-103: the output directory and error.log are made, the
\* input is opened; without it FILE_NOT_FOUND is logged and the function returns
SplitOpen ==
    /\ splitPc = "called"
    /\ IF splitInput.exists
       THEN /\ splitPc' = "read"
            /\ splitRest' = splitInput.lines
            /\ splitLog' = <<>>
       ELSE /\ splitPc' = "returned"
            /\ splitRest' = <<>>
            /\ splitLog' = <<"FILE_NOT_FOUND">>
    /\ UNCHANGED <<splitInput, splitCount, splitFolders, notSplit>>

\* lines 47-98: the lines up to the next end line are read and the compound
\* is written to its file
SplitRecord ==
    /\ splitPc = "read" /\ FirstEnd(splitRest) > 0
    /\ LET e == FirstEnd(splitRest)
           current_compound == SubSeq(splitRest, 1, e)
           database_id == extract_database_id(current_compound)
           c == splitCount
           made == IF Len(splitFolders) < c.folder_count
                   THEN Append(splitFolders, {}) ELSE splitFolders
       IN  /\ splitRest' = SubSeq(splitRest, e + 1, Len(splitRest))
           /\ IF database_id.found
              THEN IF Writable(database_id.id)
                   THEN /\ splitFolders' =
                              [made EXCEPT ![c.folder_count] = @ \cup {database_id.id}]
                        /\ splitCount' =
                              IF FolderFull(c.current_folder_compounds + 1,
                                            splitInput.compounds_per_folder)
                              THEN SplitCounters(c.folder_count + 1, 0,
                                                 c.compound_count + 1, c.error_count)
                              ELSE SplitCounters(c.folder_count,
                                                 c.current_folder_compounds + 1,
                                                 c.compound_count + 1, c.error_count)
                        /\ UNCHANGED splitLog
                   ELSE /\ splitFolders' = made
                        /\ splitCount' = CountError(c)
                        /\ splitLog' = Append(splitLog, "FILE_WRITE_ERROR")
              ELSE /\ splitCount' = CountError(c)
                   /\ splitLog' = Append(splitLog, "DATABASE_ID_NOT_FOUND")
                   /\ UNCHANGED splitFolders
    /\ UNCHANGED <<splitPc, splitInput, notSplit>>

\* lines 111-127: the input is read to its end, the summary is written
SplitEof ==
    /\ splitPc = "read" /\ FirstEnd(splitRest) = 0 /\ ~splitInput.undecodable
    /\ splitPc' = "returned"
    /\ splitRest' = <<>>
    /\ splitLog' = Append(splitLog, "Processing Summary")
    /\ UNCHANGED <<splitInput, splitCount, splitFolders, notSplit>>

\* lines 104-109: reading raises, FILE_READ_ERROR is logged and the function returns
SplitReadError ==
    /\ splitPc = "read" /\ FirstEnd(splitRest) = 0 /\ splitInput.undecodable
    /\ splitPc' = "returned"
    /\ splitRest' = <<>>
    /\ splitLog' = Append(splitLog, "FILE_READ_ERROR")
    /\ UNCHANGED <<splitInput, splitCount, splitFolders, notSplit>>

NextSplit == SplitOpen \/ SplitRecord \/ SplitEof \/ SplitReadError

SpecSplit == InitSplit /\ [][NextSplit]_vars

RECURSIVE Records(_)
\* the ended records of lines
Records(lines) ==
    IF FirstEnd(lines) = 0 THEN <<>>
    ELSE <<SubSeq(lines, 1, FirstEnd(lines))>>
            \o Records(SubSeq(lines, FirstEnd(lines) + 1, Len(lines)))

\* the IDs of the records of the input
InputIds ==
    LET recs == Records(splitInput.lines)
    IN  [i \in DOMAIN recs |-> extract_database_id(recs[i])]

\* every record of the input carries an ID, and no two the same
DistinctIds ==
    /\ \A i \in DOMAIN InputIds : InputIds[i].found
    /\ \A i, j \in DOMAIN InputIds : i # j => InputIds[i] # InputIds[j]

Ceil(n, k) == (n + k - 1) \div k

\* split_sdf_file has read the whole input
SplitDone ==
    splitPc = "returned" /\ splitInput.exists /\ ~splitInput.undecodable

\* ceil(n/k) folders, numbered 1, 2, ... by their position in splitFolders,
\* each but the last with k files and the last with at most k
FoldersFilled(n, k) ==
    /\ Len(splitFolders) = Ceil(n, k)
    /\ \A f \in DOMAIN splitFolders :
          /\ Cardinality(splitFolders[f]) <= k
          /\ f < Len(splitFolders) => Cardinality(splitFolders[f]) = k

\* C27 as stated: n ended records with distinct IDs give ceil(n/k) folders
C27_FoldersForDistinctIds ==
    (SplitDone /\ DistinctIds) =>
        FoldersFilled(Len(InputIds), splitInput.compounds_per_folder)

\* C27: after split_sdf_file over n >= 0 ended records that carry distinct
\* IDs under which a file can be written, with capacity k >= 1, there are
\* exactly ceil(n/k) batch folders, numbered from 1 without gaps, each with at
\* most k files and each but the last with exactly k; none for n = 0.
C27_FoldersForWritableIds ==
    (SplitDone /\ DistinctIds /\ \A i \in DOMAIN InputIds : Writable(InputIds[i].id)) =>
        FoldersFilled(Len(InputIds), splitInput.compounds_per_folder)

\* three records with capacity 2: a full folder and a folder with one file
C27_Witness ==
    /\ SplitDone /\ DistinctIds /\ Len(InputIds) = 3
    /\ splitInput.compounds_per_folder = 2
    /\ Len(splitFolders) = 2
    /\ Cardinality(splitFolders[1]) = 2 /\ Cardinality(splitFolders[2]) = 1

\* C28: split_sdf_file on an input file that is not there returns, with an
\* error.log that holds a FILE_NOT_FOUND entry and nothing else, and makes
\* no batch folder; it does not return before the entry is written.
C28_MissingInput ==
    /\ [](~splitInput.exists =>
            /\ splitPc \in {"called", "returned"}
            /\ splitFolders = <<>>
            /\ splitPc = "called" => ENABLED SplitOpen
            /\ splitPc = "returned" => splitLog = <<"FILE_NOT_FOUND">>)
    /\ []((splitPc = "returned" /\ splitInput.exists) =>
            \A i \in DOMAIN splitLog : splitLog[i] # "FILE_NOT_FOUND")

\* the call on a missing input has returned
C28_Witness ==
    /\ splitPc = "returned" /\ ~splitInput.exists
    /\ splitLog = <<"FILE_NOT_FOUND">> /\ splitFolders = <<>>

-----------------------------------------------------------------------------
(* extract_database_id as a function of compound_lines.                    *)

MaxLines == 4

\* the lines tried: empty, blank, an ID, an ID in white space, the tag, the
\* tag in white space, the tag with text after it, the end line
ExtractLines ==
    { <<>>, <<" ">>, <<"A">>, <<" ", "B", " ">>, TagText, <<" ", "T", " ">>,
      <<"T", "A">>, EndText }

InitExtract ==
    /\ CoreIdle /\ PathIdle /\ FilterIdle /\ SelectIdle /\ SplitIdle /\ TotalsIdle
    /\ exLines \in UNION {[1..n -> ExtractLines] : n \in 0..MaxLines}
    /\ exResult = [pc |-> "called"]

\* the call returns
Extract ==
    /\ exResult.pc = "called"
    /\ exResult' = [pc |-> "returned", value |-> extract_database_id(exLines)]
    /\ UNCHANGED <<exLines, notEx>>

NextExtract == Extract

SpecExtract == InitExtract /\ [][NextExtract]_vars

\* line i is a tag line and the line after it is there and not blank
TagWithId(i) ==
    /\ i \in DOMAIN exLines /\ i + 1 \in DOMAIN exLines
    /\ strip(exLines[i]) = TagText
    /\ strip(exLines[i + 1]) # <<>>

\* C29: extract_database_id returns the stripped content of the line after the
\* first tag line whose next line is not blank, and None when there is no such
\* tag line: no tag, the tag in the last line, or blank lines after every tag.
C29_FirstTagWithId ==
    exResult.pc = "returned" =>
        IF \E i \in DOMAIN exLines : TagWithId(i)
        THEN \E i \in DOMAIN exLines :
                /\ TagWithId(i) /\ \A j \in 1..(i - 1) : ~TagWithId(j)
                /\ exResult.value = Str(strip(exLines[i + 1]))
        ELSE exResult.value = None

\* a tag with a blank line after it, then a tag with an ID in white space
C29_Witness ==
    /\ exResult.pc = "returned"
    /\ exLines = <<TagText, <<" ">>, <<" ", "T", " ">>, <<" ", "B", " ">>>>
    /\ exResult.value = Str(<<"B">>)

-----------------------------------------------------------------------------
(* Liveness of one batch run.  The main process and the worker processes    *)
(* are scheduled by the operating system, so no step of any of them that    *)
(* stays possible is put off for ever; a call of convert_single_file ends   *)
(* because each of its external calls returns or runs into its timeout.     *)

FairPool ==
    /\ InitPool /\ [][NextPool]_vars
    /\ WF_vars(PoolStart)
    /\ WF_vars(WorkerGet)
    /\ WF_vars(WorkerQueueEmpty)
    /\ WF_vars(\E r \in 1..MaxRecords : WorkerRun(r))
    /\ WF_vars(MonitorGet)
    /\ WF_vars(MonitorQueueEmpty)
    /\ WF_vars(MonitorLoopEnd)
    /\ WF_vars(PoolReturn)

\* C30: a batch run on N >= 1 records with W >= 1 workers comes to the point
\* where every record has had its result, every worker has ended and
\* process_batch_folder_parallel has returned.
C30_BatchRunEnds ==
    (poolPc = "called" /\ sdfCount >= 1) ~>
        /\ poolPc = "returned"
        /\ \A r \in 1..sdfCount : puts[r] = 1
        /\ exited = num_processes

-----------------------------------------------------------------------------
(* Claims about the end of a worker (SpecFilter, SpecPool).                 *)

\* C31: a worker process ends only when the shared task queue holds no task
\* any more: while a task put before the workers started has not been taken,
\* no worker has ended.
C31_ExitOnlyWhenDrained ==
    (\E w \in DOMAIN filtWorker : filtWorker[w] = "exited") => filtPut + filtTasks = 0

-----------------------------------------------------------------------------
(* progress_monitor on its own: it is called with total_files and a queue   *)
(* on which the results arrive one after the other.                         *)

MaxTotal == 101

MaxNotConverted == 1

\* the results a worker can put, as far as progress_monitor reads them
MonitorResults ==
    { [success |-> TRUE, file |-> 0, error |-> "None"],
      [success |-> TRUE, file |-> 0, error |-> "Already exists (skipped)"],
      [success |-> FALSE, file |-> 0, error |-> "failed"] }

InitProgress ==
    /\ PipeIdle /\ ClsIdle /\ RunIdle /\ MainIdle /\ OtherIdle
    /\ poolPc = "monitor"
    /\ total_files \in 1..MaxTotal
    /\ monitor = MonitorStart
    /\ managerUp = TRUE
    /\ sdfCount = 0 /\ num_processes = 0
    /\ statErr = <<>> /\ files = <<>>
    /\ task_queue = <<>> /\ result_queue = <<>>
    /\ atGet = 0 /\ running = {} /\ exited = 0
    /\ stalls = 0 /\ takes = <<>> /\ puts = <<>> /\ sent = <<>>
    /\ ret = Counts(0, 0, 0)

\* a worker puts the next result on result_queue
ResultPut(result) ==
    /\ poolPc = "monitor"
    /\ result_queue = <<>>
    /\ monitor.completed < total_files
    /\ result.error # "None" => monitor.failed + monitor.skipped < MaxNotConverted
    /\ result_queue' = <<result>>
    /\ UNCHANGED <<poolPc, sdfCount, num_processes, statErr, files, total_files,
                   managerUp, task_queue, atGet, running, exited, monitor, stalls,
                   takes, puts, sent, ret>>
    /\ UNCHANGED notPool

NextProgress ==
    \/ \E result \in MonitorResults : ResultPut(result)
    \/ MonitorGet
    \/ MonitorQueueEmpty
    \/ MonitorLoopEnd
    \/ PoolReturn

SpecProgress == InitProgress /\ [][NextProgress]_vars

\* the values of completed for which a progress line has been logged
Reported == {monitor.reported[i] : i \in DOMAIN monitor.reported}

\* C32: a progress line is logged after the c-th result exactly when c is a
\* multiple of the report frequency, or c is 1, 10 or 50, or c is the expected
\* total; one line each, in the order of the results.
C32_ProgressLines ==
    poolPc \in {"monitor", "returned"} =>
        /\ \A c \in 1..total_files :
              c \in Reported <=>
                /\ c <= monitor.completed
                /\ \/ c % PROGRESS_REPORT_FREQUENCY = 0
                   \/ c \in {1, 10, 50}
                   \/ c = total_files
        /\ Reported \subseteq 1..total_files
        /\ \A i, j \in DOMAIN monitor.reported :
              i < j => monitor.reported[i] < monitor.reported[j]

\* a batch of 101 results, all counted: lines after the 1st, 10th, 50th and
\* 100th result and after the last one
C32_Witness ==
    /\ poolPc = "returned" /\ total_files = 101
    /\ monitor.completed = 101
    /\ monitor.reported = <<1, 10, 50, 100, 101>>

-----------------------------------------------------------------------------
(* main(): the counters it adds up over its loop.  The batch function is    *)
(* taken as a call that returns its summary: one iteration of the loop is   *)
(* one step.                                                                *)

notTot == <<pipeVars, poolVars, clsVars, runVars, pathVars, filtVars, selVars,
            splitVars, exVars>>

\* what the batch function can return for a batch of n tasks: (0, 0, 0) for
\* none, else the counters of progress_monitor after n results
BatchReturns(n) ==
    {Counts(s, f, k) : s \in 0..n, f \in 0..n, k \in 0..n} \cap
    {c \in [successful : 0..n, failed : 0..n, skipped : 0..n] :
        c.successful + c.failed + c.skipped = n}

\* AddSummary keeping the counters of the last batch alone
AddSummaryLast(t, result) ==
    [t EXCEPT !.total_successful = result.successful,
              !.total_failed = result.failed,
              !.total_skipped = result.skipped,
              !.processed_batches = @ + 1]

\* lines 501-505
AddSummary(t, result) ==
    [t EXCEPT !.total_successful = @ + result.successful,
              !.total_failed = @ + result.failed,
              !.total_skipped = @ + result.skipped,
              !.processed_batches = @ + 1]

\* lines 480-490: the resume check finds the batch completed;
\* skipped_batches += 1; continue
TotalsSkip ==
    /\ mainPc = "loop"
    /\ batchIdx <= numBatches
    /\ batchState[batchIdx] = "Discovered"
    /\ \E f \in BatchFolders :
        LET n == Len(f.files)
            p == Cardinality({r \in 1..n : f.files[r] # "absent"})
        IN  /\ SkipBatch(check_batch_completion(f.exists, n, p))
            /\ batchState' = [batchState EXCEPT ![batchIdx] = "Skip"]
            /\ totals' = [totals EXCEPT !.skipped_batches = @ + 1]
            /\ summaries' = Append(summaries, [ran |-> FALSE])
    /\ batchIdx' = batchIdx + 1
    /\ seen' = NoFolders
    /\ UNCHANGED <<mainPc, numBatches, resumeMode, toolCheck>>
    /\ UNCHANGED notTot

\* lines 480-508: the batch is not skipped; the batch function is called on
\* it and returns, and its counters are added to the totals
TotalsRun ==
    /\ mainPc = "loop"
    /\ batchIdx <= numBatches
    /\ batchState[batchIdx] = "Discovered"
    /\ \E f \in BatchFolders :
        LET n == Len(f.files)
            p == Cardinality({r \in 1..n : f.files[r] # "absent"})
        IN  /\ ~SkipBatch(check_batch_completion(f.exists, n, p))
            /\ \E result \in BatchReturns(Limited(n, FileLimit)) :
                /\ totals' = AddSummary(totals, result)
                /\ summaries' = Append(summaries, [ran |-> TRUE, summary |-> result])
            /\ batchState' = [batchState EXCEPT ![batchIdx] = "Run"]
    /\ batchIdx' = batchIdx + 1
    /\ seen' = NoFolders
    /\ UNCHANGED <<mainPc, numBatches, resumeMode, toolCheck>>
    /\ UNCHANGED notTot

NextTotals ==
    \/ DriverSetup
    \/ TotalsSkip
    \/ TotalsRun
    \/ DriverSummary

SpecTotals == InitMain /\ [][NextTotals]_vars

\* the batches among the first i the loop has left that were run
Ran(i) == {b \in 1..i : summaries[b].ran}

RECURSIVE SumOf(_, _)
\* the sum of a counter over the summaries of the batches 1..i that were run
SumOf(field, i) ==
    IF i = 0 THEN 0
    ELSE SumOf(field, i - 1) +
         (IF summaries[i].ran
          THEN CASE field = "successful" -> summaries[i].summary.successful
                 [] field = "failed"     -> summaries[i].summary.failed
                 [] OTHER                -> summaries[i].summary.skipped
          ELSE 0)

\* C33: at the end of a run that passed setup, processed_batches plus
\* skipped_batches is the number of selected batches, every selected batch was
\* counted once, as run or as skipped, and the totals of converted, failed and
\* skipped records are the sums of the summaries of the batches that were run.
C33_RunTotals ==
    (mainPc = "ended" /\ toolCheck = "ok") =>
        LET n == Len(summaries) IN
        /\ n = numBatches
        /\ totals.processed_batches + totals.skipped_batches = numBatches
        /\ totals.processed_batches = Cardinality(Ran(n))
        /\ totals.skipped_batches = n - Cardinality(Ran(n))
        /\ \A b \in 1..n : summaries[b].ran <=> batchState[b] = "Run"
        /\ totals.total_successful = SumOf("successful", n)
        /\ totals.total_failed = SumOf("failed", n)
        /\ totals.total_skipped = SumOf("skipped", n)

\* a run over two batches: the first is run and reports one record converted
\* and one failed, the second is skipped as completed
C33_Witness ==
    /\ mainPc = "ended" /\ toolCheck = "ok" /\ numBatches = 2
    /\ summaries = <<[ran |-> TRUE, summary |-> Counts(1, 1, 0)], [ran |-> FALSE]>>
    /\ totals = [total_successful |-> 1, total_failed |-> 1, total_skipped |-> 0,
                 processed_batches |-> 1, skipped_batches |-> 1]

-----------------------------------------------------------------------------
(* Claims about the two pipelines side by side (SpecPipe).                  *)

\* C34: whatever the strategy passed to convert_single_file, a stage-3 call is
\* made only after one or two minimisation sub-steps were run and each exited
\* 0, and no call returns Converted without a minimisation sub-step.
C34_RefinementBeforeStage3 ==
    Returned =>
        /\ \A i \in 1..Len(res.calls) :
              res.calls[i].cmd \in Stage3Calls =>
                  /\ Cardinality({j \in MinAt : j < i}) \in {1, 2}
                  /\ \A j \in MinAt : j < i /\ res.calls[j].kind = "exit0"
        /\ res.exit = "converted" => MinAt # {}

-----------------------------------------------------------------------------
(* Claims about the batches the resume check skips (SpecRun).               *)

\* the run has ended on the resume check: the batch has records and no task
\* of it was made
SkippedAsComplete == runPc = "ended" /\ atStart[runNo].sdf > 0 /\ nextTask = 0

\* the records whose target passes the gate of convert_single_file
GatePassing == doneBefore + Cardinality({r \in DOMAIN target : HasData(target[r])})

\* C35: a batch that main() skips as completed under resume mode holds, for at
\* least 95% of its records, a target that exists with non-zero size.
C35_SkippedBatchHasArtifacts ==
    SkippedAsComplete => 20 * GatePassing >= 19 * SdfFiles

\* the primary stage-3 converter, where it was called, did not succeed
PrimaryFailed(calls) ==
    \A i \in 1..Len(calls) : calls[i].cmd = "prepare_ligand4" => ~Stage3Ok(calls[i])

\* the external calls both pipelines have, all but the primary stage-3
\* converter: the command, how it ended and, for the calls that work on the
\* intermediate file, whether that file held data when the call ended (what
\* the target holds also depends on what the primary converter left there)
CommonCalls(calls) ==
    LET common == SelectSeq(calls, LAMBDA c : c.cmd # "prepare_ligand4") IN
    [i \in 1..Len(common) |->
        [cmd |-> common[i].cmd, kind |-> common[i].kind,
         data |-> common[i].cmd \notin Stage3Calls /\ HasData(common[i].file)]]

\* what the other pipeline can do on the arguments and files of the call made
OtherRuns ==
    IF inv.variant = "worker"
    THEN ConverterRuns(inv.overwrite, inv.strategy, inv.out0, inv.temp0, inv.gateErr, "new")
    ELSE WorkerRuns(inv.overwrite, inv.strategy, inv.out0, inv.temp0, inv.gateErr, "new")

\* C36: with the primary stage-3 converter unavailable or failing, a call of
\* either pipeline has a call of the other one that made the same external
\* calls with the same outcomes and reports the same success; the strategies
\* are those both pipelines know.
C36_WorkerAsConverter ==
    (Returned /\ inv.strategy \in {"fast", "balanced", "thorough"}
              /\ PrimaryFailed(res.calls)) =>
        \E run \in OtherRuns :
            /\ ~run.raised /\ PrimaryFailed(run.calls)
            /\ CommonCalls(run.calls) = CommonCalls(res.calls)
            /\ run.success = res.success

-----------------------------------------------------------------------------
(* Claims about the counters of split_sdf_file (SpecSplit).                 *)

\* the ended records of the input read so far
RecordsRead == Len(Records(splitInput.lines)) - Len(Records(splitRest))

\* the next record to be read is ended and carries no ID
NextHasNoId ==
    /\ splitPc = "read" /\ FirstEnd(splitRest) > 0
    /\ ~extract_database_id(SubSeq(splitRest, 1, FirstEnd(splitRest))).found

\* C37: after every ended record compound_count + error_count is the number
\* of ended records read so far; a record without an ID adds one to
\* error_count and a DATABASE_ID_NOT_FOUND entry to error.log, is written to no
\* file, makes no folder and takes no place in the current folder, and the
\* reading goes on with the line after it: when the function returns from an
\* input it could open, every ended record of the input has been counted.
C37_CountersAndNoId ==
    /\ [](splitPc = "read" =>
            splitCount.compound_count + splitCount.error_count = RecordsRead)
    /\ []((splitPc = "returned" /\ splitInput.exists) =>
            splitCount.compound_count + splitCount.error_count
                = Len(Records(splitInput.lines)))
    /\ [][NextHasNoId =>
            /\ splitCount' = [splitCount EXCEPT !.error_count = @ + 1]
            /\ splitFolders' = splitFolders
            /\ splitLog' = Append(splitLog, "DATABASE_ID_NOT_FOUND")
            /\ splitPc' = "read"
            /\ splitRest' = SubSeq(splitRest, FirstEnd(splitRest) + 1, Len(splitRest))]_vars

\* a record without a tag, then a record with ID A, capacity 2: one error,
\* one compound in the first folder, which has room for one more
C37_Witness ==
    /\ splitPc = "returned" /\ splitInput.compounds_per_folder = 2
    /\ splitInput.lines = <<<<"A">>, EndText, TagText, <<"A">>, EndText>>
    /\ splitCount = SplitCounters(1, 1, 1, 1)
    /\ splitFolders = << {<<"A">>} >>
    /\ splitLog = <<"DATABASE_ID_NOT_FOUND", "Processing Summary">>

\* C38: the number the summary gives as Created Folders, folder_count, is the
\* number of batch folders in the output directory when split_sdf_file has
\* returned.
C38_CreatedFoldersReported ==
    SplitDone => splitCount.folder_count = Len(splitFolders)

====
